---------------------------- MODULE Spec2Model ----------------------------
(***************************************************************************)
(* Model of the LLM conversation gateway (mdnmcp/llmconversation):         *)
(* the item/exchange/conversation data model, the websocket handler that   *)
(* attaches monitors, the orchestration service (task scheduling, monitor  *)
(* fan-out, tool dispatch) and the three streaming provider adapters.      *)
(*                                                                         *)
(* Scheduling is asyncio's: one coroutine runs at a time and control can   *)
(* change hands only at an await.  One action is one handler run between   *)
(* two reads of the network (a vendor event, a client message, a line of   *)
(* the subprocess), with every call it makes.  A raise inside a handler is *)
(* the flag "raised" of the threaded state record: every later statement   *)
(* of the handler is skipped, as Python skips it.                          *)
(*                                                                         *)
(* Abstractions: an item key (uuid4) is the item's index in "items"; a     *)
(* text fragment sent by the vendor is a one-token sequence holding the    *)
(* vendor event's number, so that concatenations record order and          *)
(* multiplicity; created_at timestamps are left out.                       *)
(***************************************************************************)
EXTENDS Naturals, Sequences, FiniteSets, TLC

\* ----------------------------------------------------------------- bounds
\* vendor events read from all streams together
MaxEvents == 3
\* user.message.created messages of one connection
MaxUserMessages == 1
\* tasks schedule_task creates, all conversations together
MaxTasks == 3
\* lines the ping subprocess writes, all tool calls together
MaxLines == 1

\* update.full.requested messages of one connection
MaxResync == 1

\* a stored conversation a snapshot is taken of: its exchanges, and the
\* assistant items of one exchange
MaxStoredExchanges == 2
MaxStoredItems == 1
MaxTargetLen == 3
MaxUnknown == 2
MaxSseLines == 5
MaxReads == 2

\* asyncio.Semaphore(2) of a provider
\* a provider with three permits
SemaphoreOfThree == 2 + 1

SemaphoreValue == 2

ConvIds == {1, 2}
Mons == {"m1", "m2"}
Adapters == {"response", "chatcompletition", "messages"}
\* the model names the backend lists
Models == {"gpt"}
None == 0
\* the JSON text of the arguments of a function call, by what json.loads
\* makes of it: "invalid" (no JSON), "nonobject" (a JSON value that is no
\* object), "notarget" (an object without "target"), "object" (an object whose
\* "target" is the string of the characters in target).  PingArguments is
\* {"target": "h"}.
PingArguments == [json |-> "object", target |-> <<"h">>]
\* get_model's None
NoModel == "None"

\* the read loop before its first line (task 0: no chat turn has read a line)
NoLines == [event |-> <<>>, lines |-> <<>>, blocks |-> <<>>, task |-> 0]

VARIABLES
    adapter,        \* class of Providers[0]
    Conversations,  \* keys of LLMConversationRouterService.Conversations
    exchanges,      \* conversation.exchanges: per conversation, a list of lists of item keys
    items,          \* the item objects, by key
    monitors,       \* conversation.monitors
    tasks,          \* conversation.tasks (task ids)
    ttab,           \* the asyncio tasks created by schedule_task, by id; a chat
                    \* turn keeps the model get_model resolved for its request,
                    \* a tool call the command line of its subprocess
    notify,         \* send_update_tasks tasks created by on_task_done and not yet run
    permits,        \* provider.Semaphore value
    cur,            \* the adapter object's streaming-target attributes
    ws,             \* the websocket handlers (one per connection): where the handler
                    \* is, its conversation, whether its transport is broken, the
                    \* user messages it has read, and (history) how many send_update
                    \* calls had been made when its first snapshot was computed
    nev,            \* vendor events read so far
    nlines,         \* subprocess lines read so far
    logs,           \* history: what each connection was sent, in order
    emitted,        \* history: every send_update call, in order, with the monitors
                    \* registered at the call, those whose send raised and those
                    \* the event was written to
    statusLog,      \* history: every value assigned to an item's status, in order
    reader          \* the read loop of the response-style chat_request: event, the
                    \* block being accumulated; (history) lines, the lines read,
                    \* blocks, the blocks handed to _on_llm_event, and task,
                    \* the chat turn whose lines are followed

vars == <<adapter, Conversations, exchanges, items, monitors, tasks, ttab, notify,
          permits, cur, ws, nev, nlines, logs, emitted, statusLog, reader>>

\* ---------------------------------------------------------------- helpers
RECURSIVE Flatten(_)
Flatten(ss) == IF ss = <<>> THEN <<>> ELSE Head(ss) \o Flatten(Tail(ss))

Range(s) == {s[i] : i \in 1..Len(s)}

Remove(s, x) ==
    LET idx == CHOOSE i \in 1..Len(s) : s[i] = x /\ \A j \in 1..(i-1) : s[j] # x
    IN  SubSeq(s, 1, idx - 1) \o SubSeq(s, idx + 1, Len(s))

IsPrefix(s, t) == Len(s) <= Len(t) /\ SubSeq(t, 1, Len(s)) = s

\* ------------------------------------------------------------- data model
UserMessage(key, content, model) ==
    [cls |-> "UserMessage", key |-> key, type |-> "message", role |-> "user",
     content |-> content, model |-> model]

AssistentMessage(key, role, content, status) ==
    [cls |-> "AssistentMessage", key |-> key, type |-> "message", role |-> role,
     content |-> content, status |-> status]

AssistentReasoning(key, content, status) ==
    [cls |-> "AssistentReasoning", key |-> key, type |-> "reasoning",
     content |-> content, status |-> status]

FunctionCall(key, call_id, name, arguments, status) ==
    [cls |-> "FunctionCall", key |-> key, type |-> "function_call", call_id |-> call_id,
     name |-> name, arguments |-> arguments, status |-> status,
     content |-> <<>>, error |-> FALSE]

\* to_dict of the four item classes (created_at left out)
ToDict(it) ==
    CASE it.cls = "UserMessage" ->
            [key |-> it.key, type |-> "message", role |-> it.role,
             content |-> it.content, model |-> it.model]
      [] it.cls = "AssistentMessage" ->
            [key |-> it.key, type |-> "message", status |-> it.status,
             role |-> it.role, content |-> it.content]
      [] it.cls = "AssistentReasoning" ->
            [key |-> it.key, type |-> "reasoning", content |-> it.content,
             status |-> it.status]
      [] it.cls = "FunctionCall" ->
            [type |-> "function_call", key |-> it.key, status |-> it.status,
             name |-> it.name, arguments |-> it.arguments, content |-> it.content,
             error |-> it.error]

\* Exchange.get_last_item: the last item of the exchange whose type is item_type
\* (a UserMessage has type "message"); None when there is none.
GetLastItem(st, c, e, item_type) ==
    LET ks == st.exchanges[c][e]
        hits == {i \in 1..Len(ks) : st.items[ks[i]].type = item_type}
    IN  IF hits = {} THEN None
        ELSE ks[CHOOSE i \in hits : \A j \in hits : j <= i]

\* ------------------------------------------------- the threaded state record
Cur ==
    [items |-> items, statusLog |-> statusLog, exchanges |-> exchanges,
     tasks |-> tasks, ttab |-> ttab, logs |-> logs, emitted |-> emitted,
     cur |-> cur, raised |-> FALSE]

Commit(st) ==
    /\ Len(st.ttab) <= MaxTasks
    /\ items' = st.items
    /\ statusLog' = st.statusLog
    /\ exchanges' = st.exchanges
    /\ tasks' = st.tasks
    /\ ttab' = st.ttab
    /\ logs' = st.logs
    /\ emitted' = st.emitted
    /\ cur' = st.cur

\* a send_update whose event overtakes what the monitor was sent before
SendUpdateOvertaking(st, c, ev, pre) ==
    LET ms == monitors[c]
        healthy == {m \in ms : ~ws[m].broken}
        got == IF healthy = ms THEN ms ELSE pre \cap healthy
    IN  IF st.raised THEN st
        ELSE [st EXCEPT
                !.logs = [m \in Mons |->
                            IF m \in got THEN <<ev>> \o st.logs[m] ELSE st.logs[m]],
                !.emitted = Append(st.emitted,
                                   [conv |-> c, ev |-> ev, mons |-> ms,
                                    failed |-> ms \ healthy, got |-> got]),
                !.raised = (healthy # ms)]

\* send_update: one task per monitor inside an asyncio.TaskGroup.  When every
\* monitor's send succeeds all of them have the event.  When one raises, the
\* group cancels the sends that have not written yet and re-raises into the
\* caller: "pre" is the set of monitors whose send was written before that.
SendUpdate(st, c, ev, pre) ==
    LET ms == monitors[c]
        healthy == {m \in ms : ~ws[m].broken}
        got == IF healthy = ms THEN ms ELSE pre \cap healthy
    IN  IF st.raised THEN st
        ELSE [st EXCEPT
                !.logs = [m \in Mons |->
                            IF m \in got THEN Append(st.logs[m], ev) ELSE st.logs[m]],
                !.emitted = Append(st.emitted,
                                   [conv |-> c, ev |-> ev, mons |-> ms,
                                    failed |-> ms \ healthy, got |-> got]),
                !.raised = (healthy # ms)]

\* the sets "pre" ranges over: a choice only when a monitor of c is broken
PreSets(c) ==
    IF c \in ConvIds /\ \E m \in monitors[c] : ws[m].broken
    THEN SUBSET {m \in monitors[c] : ~ws[m].broken}
    ELSE {{}}

\* an exchange that takes a new item at the front of its list
InsertItemFirst(st, c, e, it) ==
    IF st.raised THEN st
    ELSE [st EXCEPT
            !.items = Append(st.items, it),
            !.statusLog = Append(st.statusLog,
                                 IF it.cls = "UserMessage" THEN <<>> ELSE <<it.status>>),
            !.exchanges[c][e] = <<it.key>> \o st.exchanges[c][e]]

\* exchange.items.append(item) for a newly constructed item
AppendItem(st, c, e, it) ==
    IF st.raised THEN st
    ELSE [st EXCEPT
            !.items = Append(st.items, it),
            !.statusLog = Append(st.statusLog,
                                 IF it.cls = "UserMessage" THEN <<>> ELSE <<it.status>>),
            !.exchanges[c][e] = Append(st.exchanges[c][e], it.key)]

\* item.status = v; a UserMessage has no such field and pydantic raises
SetStatus(st, k, v) ==
    IF st.raised THEN st
    ELSE IF st.items[k].cls = "UserMessage" THEN [st EXCEPT !.raised = TRUE]
    ELSE [st EXCEPT !.items[k].status = v,
                    !.statusLog[k] = Append(st.statusLog[k], v)]

\* a decoder that adds the fragment in front of the content
AddContentInFront(st, k, text) ==
    IF st.raised THEN st
    ELSE [st EXCEPT !.items[k].content = text \o st.items[k].content]

\* item.content += text
AddContent(st, k, text) ==
    IF st.raised THEN st
    ELSE [st EXCEPT !.items[k].content = st.items[k].content \o text]

ItemEvent(typ, st, k) == [type |-> typ, item |-> ToDict(st.items[k])]

DeltaEvent(k, text) == [type |-> "item.delta", key |-> k, delta |-> text]

\* a send_update_tasks that counts every task ever scheduled
SendUpdateTasksOfAll(st, c, pre) ==
    IF st.raised THEN st
    ELSE SendUpdate(st, c, [type |-> "tasks.updated", count |-> Len(st.ttab)], pre)

\* send_update_tasks
SendUpdateTasks(st, c, pre) ==
    IF st.raised THEN st
    ELSE SendUpdate(st, c, [type |-> "tasks.updated", count |-> Len(st.tasks[c])], pre)

\* schedule_task: create the asyncio task, register it, broadcast the count
ScheduleTask(st, c, kind, target, pre) ==
    IF st.raised THEN st
    ELSE LET tid == Len(st.ttab) + 1
             t == [kind |-> kind, conv |-> c, target |-> target, pc |-> "new",
                   model |-> NoModel, cmd |-> <<>>,
                  pending |-> {}, return_code |-> 0]
             s1 == [st EXCEPT !.ttab = Append(st.ttab, t),
                              !.tasks[c] = Append(st.tasks[c], tid)]
         IN  SendUpdateTasks(s1, c, pre)

\* create_exchange
CreateExchange(st, c, content, model, pre) ==
    LET e == Len(st.exchanges[c]) + 1
        k == Len(st.items) + 1
        s1 == [st EXCEPT !.exchanges[c] = Append(st.exchanges[c], <<>>)]
        s2 == AppendItem(s1, c, e, UserMessage(k, content, model))
        s3 == SendUpdate(s2, c, ItemEvent("item.appended", s2, k), pre)
    IN  ScheduleTask(s3, c, "chat", e, pre)

\* a snapshot whose case matches the class UserMessage only
FullUpdateItemsOfUsers(c) ==
    LET ks == SelectSeq(Flatten(exchanges[c]), LAMBDA k : items[k].cls = "UserMessage")
    IN  [i \in 1..Len(ks) |-> ToDict(items[ks[i]])]

\* the items list built by send_full_update: "case UserMessage:" is a capture
\* pattern, it matches an item of any class
FullUpdateItems(c) ==
    LET ks == Flatten(exchanges[c])
    IN  [i \in 1..Len(ks) |-> ToDict(items[ks[i]])]

FullUpdate(c) ==
    [type |-> "update.full", conversation_id |-> c, items |-> FullUpdateItems(c)]

\* ------------------------------------------------------------------- Init
Init ==
    /\ adapter \in Adapters
    /\ Conversations = {}
    /\ exchanges = [c \in ConvIds |-> <<>>]
    /\ items = <<>>
    /\ monitors = [c \in ConvIds |-> {}]
    /\ tasks = [c \in ConvIds |-> <<>>]
    /\ ttab = <<>>
    /\ notify = [c \in ConvIds |-> 0]
    /\ permits = SemaphoreValue
    /\ cur = [msg |-> None, tools |-> <<>>, block |-> None]
    /\ ws = [m \in Mons |-> [pc |-> "idle", conv |-> None, broken |-> FALSE,
                             sent |-> 0, snap |-> 0, warned |-> 0]]
    /\ nev = 0
    /\ nlines = 0
    /\ logs = [m \in Mons |-> <<>>]
    /\ emitted = <<>>
    /\ reader = NoLines
    /\ statusLog = <<>>

\* ------------------------------------------------------------- task table
IsRunnable(t, kind, pc) ==
    /\ t \in 1..Len(ttab)
    /\ ttab[t].kind = kind
    /\ ttab[t].pc = pc

\* a get_model that scans from the oldest exchange
GetModelOldestFirst(st, c) ==
    LET ks == Flatten(st.exchanges[c])
        us == {i \in 1..Len(ks) : st.items[ks[i]].cls = "UserMessage"}
    IN  IF us = {} THEN NoModel
        ELSE st.items[ks[CHOOSE i \in us : \A j \in us : i <= j]].model

\* a get_model that looks only into the newest exchange
GetModelOfNewestExchange(st, c) ==
    LET ks == IF st.exchanges[c] = <<>> THEN <<>>
              ELSE st.exchanges[c][Len(st.exchanges[c])]
        us == {i \in 1..Len(ks) : st.items[ks[i]].cls = "UserMessage"}
    IN  IF us = {} THEN NoModel
        ELSE st.items[ks[CHOOSE i \in us : \A j \in us : j <= i]].model

\* Conversation.get_model
GetModel(st, c) ==
    LET ks == Flatten(st.exchanges[c])
        us == {i \in 1..Len(ks) : st.items[ks[i]].cls = "UserMessage"}
    IN  IF us = {} THEN NoModel
        ELSE st.items[ks[CHOOSE i \in us : \A j \in us : j <= i]].model

\* ------------------------------------- the history a chat request serializes
\* the entries the message-block adapter makes of one item
MessagesEntries(it) ==
    CASE it.cls \in {"UserMessage", "AssistentMessage"} ->
            <<[role |-> IF it.cls = "UserMessage" THEN "user" ELSE "assistant",
               content |-> it.content]>>
      [] it.cls = "AssistentReasoning" -> <<>>
      [] it.cls = "FunctionCall" ->
            <<[role |-> "assistant",
               content |-> <<[type |-> "tool_use", id |-> it.call_id,
                              name |-> it.name]>>],
              [role |-> "user",
               content |-> <<[type |-> "tool_result", tool_use_id |-> it.call_id,
                              content |-> it.content]>>]>>

\* the entries the response-style adapter makes of one item
ResponseEntries(it) ==
    CASE it.cls \in {"UserMessage", "AssistentMessage"} ->
            <<[role |-> it.role, content |-> it.content]>>
      [] it.cls = "AssistentReasoning" -> <<>>
      [] it.cls = "FunctionCall" ->
            <<[type |-> "function_call", call_id |-> it.call_id, name |-> it.name,
               arguments |-> it.arguments],
              [type |-> "function_call_output", call_id |-> it.call_id,
               output |-> it.content]>>

\* the entries the chat-completion adapter makes of one item
ChatCompletitionEntries(it) ==
    CASE it.cls \in {"UserMessage", "AssistentMessage"} ->
            <<[role |-> IF it.cls = "UserMessage" THEN "user" ELSE "assistant",
               content |-> it.content]>>
      [] it.cls = "AssistentReasoning" -> <<>>
      [] it.cls = "FunctionCall" ->
            <<[role |-> "assistant", content |-> None,
               tool_calls |-> <<[id |-> it.call_id, type |-> "function",
                                 function |-> [name |-> it.name,
                                               arguments |-> it.arguments]]>>],
              [role |-> "tool", tool_call_id |-> it.call_id, content |-> it.content]>>

Entries(a, it) ==
    CASE a = "response" -> ResponseEntries(it)
      [] a = "chatcompletition" -> ChatCompletitionEntries(it)
      [] a = "messages" -> MessagesEntries(it)

\* the loops over conversation.exchanges and exch.items of chat_request
RECURSIVE SerializeItems(_, _, _)
SerializeItems(a, st, ks) ==
    IF ks = <<>> THEN <<>>
    ELSE Entries(a, st.items[Head(ks)]) \o SerializeItems(a, st, Tail(ks))

\* the history of chat_request; the chat-completion adapter puts the
\* conversation's instructions first as a system message
Serialize(a, st, c) ==
    (IF a = "chatcompletition"
     THEN <<[role |-> "system", content |-> <<"instructions">>]>> ELSE <<>>)
    \o SerializeItems(a, st, Flatten(st.exchanges[c]))

\* create_function_call
CreateFunctionCall(st, c, k, pre) == ScheduleTask(st, c, "tool", k, pre)

\* how a task leaves: its pc, and for a chat turn the permit it held
EndPc(st) == IF st.raised THEN "failed" ELSE "done"

\* ------------------------------------------------ task_chat_request, start
\* with_provider acquires the permit of Providers[0]; chat_request serializes
\* the history, asserts the model, resets the streaming targets (the
\* chat-completion adapter before the POST, the message-block adapter once the
\* response is there) and posts.  http_ok: the response status is 200.
\* sse: the response's content type is text/event-stream, which every adapter
\* asserts once the status was 200.
ChatStart(t, http_ok, sse) ==
    /\ IsRunnable(t, "chat", "new")
    /\ permits > 0
    /\ LET c == ttab[t].conv
           asserted == GetModel(Cur, c) # NoModel
       IN  /\ cur' = IF ~asserted THEN cur
                     ELSE IF adapter = "chatcompletition"
                          THEN [cur EXCEPT !.msg = None, !.tools = <<>>]
                     ELSE IF adapter = "messages" /\ http_ok /\ sse
                          THEN [cur EXCEPT !.block = None]
                     ELSE cur
           /\ ttab' = [ttab EXCEPT ![t].pc =
                            IF ~asserted THEN "failed"
                            ELSE IF ~http_ok THEN "done"
                            ELSE IF sse THEN "stream" ELSE "failed",
                                    ![t].model = GetModel(Cur, c)]
           /\ permits' = IF asserted /\ http_ok /\ sse THEN permits - 1 ELSE permits
    \* event = [] of the read loop; the lines of one chat turn at a time are
    \* followed, and a running turn's lines are kept
    /\ reader' = IF reader.task \in 1..Len(ttab) /\ ttab[reader.task].pc = "stream"
                 THEN reader
                 ELSE NoLines
    /\ UNCHANGED <<adapter, Conversations, exchanges, items, monitors, tasks, notify,
                   ws, nev, nlines, logs, emitted, statusLog>>

\* ------------------------------------------- response-style adapter events
RespEvents ==
    {[type |-> "response.output_item.added", item |-> it] :
        it \in {"reasoning", "message", "function_call"}}
    \cup {[type |-> "response.output_item.done", item |-> it] :
        it \in {"reasoning", "message", "function_call"}}
    \cup {[type |-> ty] : ty \in {"response.reasoning_text.delta",
                                  "response.output_text.delta",
                                  "response.function_call_arguments.done",
                                  "response.created"}}

\* the delta branch shared by reasoning_text.delta and output_text.delta
RespDelta(st, c, e, item_type, text, pre) ==
    LET k == GetLastItem(st, c, e, item_type)
    IN  IF k = None THEN st
        ELSE SendUpdate(AddContent(st, k, text), c, DeltaEvent(k, text), pre)

\* LLMChatProviderV1Response._on_llm_event; n numbers the event.  The vendor
\* sends an added item with status in_progress and no content, and a done item
\* with status completed.
RespOnLLMEvent(st, c, e, ev, n, pre) ==
    CASE ev.type = "response.output_item.added" ->
            LET k == Len(st.items) + 1
                it == CASE ev.item = "reasoning" ->
                               AssistentReasoning(k, <<>>, "in_progress")
                        [] ev.item = "message" ->
                               AssistentMessage(k, "assistant", <<>>, "in_progress")
                        [] ev.item = "function_call" ->
                               FunctionCall(k, n, "ping", <<>>, "in_progress")
                s1 == AppendItem(st, c, e, it)
            IN  SendUpdate(s1, c, ItemEvent("item.appended", s1, k), pre)
      [] ev.type = "response.output_item.done" ->
            LET k == GetLastItem(st, c, e, ev.item)
            IN  IF k = None THEN st
                ELSE LET s1 == SetStatus(st, k, "completed")
                         s2 == IF s1.raised THEN s1
                               ELSE SendUpdate(s1, c, ItemEvent("item.updated", s1, k), pre)
                     IN  IF st.items[k].cls = "FunctionCall"
                         THEN CreateFunctionCall(s2, c, k, pre)
                         ELSE s2
      [] ev.type = "response.reasoning_text.delta" ->
            RespDelta(st, c, e, "reasoning", <<n>>, pre)
      [] ev.type = "response.output_text.delta" ->
            RespDelta(st, c, e, "message", <<n>>, pre)
      [] ev.type = "response.function_call_arguments.done" ->
            LET k == GetLastItem(st, c, e, "function_call")
            IN  IF k = None THEN st
                ELSE [st EXCEPT !.items[k].name = "ping",
                                !.items[k].arguments = <<PingArguments>>]
      [] OTHER -> st

\* -------------------------------------- chat-completion-style adapter chunks
\* a chunk's choices[0]: delta.content, delta.tool_calls[0].index, finish_reason
CCChunks ==
    {[content |-> TRUE, tool |-> None, finish |-> "none"],
     [content |-> FALSE, tool |-> 1, finish |-> "none"],
     [content |-> FALSE, tool |-> 2, finish |-> "none"],
     [content |-> FALSE, tool |-> None, finish |-> "stop"],
     [content |-> FALSE, tool |-> None, finish |-> "tool_calls"]}

\* the key self._current_tool_calls holds for index, None when absent
ToolAt(tools, index) ==
    IF \E i \in 1..Len(tools) : tools[i].index = index
    THEN tools[CHOOSE i \in 1..Len(tools) : tools[i].index = index].key
    ELSE None

\* the loop of the 'tool_calls' finish reason over self._current_tool_calls
RECURSIVE CCCompleteTools(_, _, _, _)
CCCompleteTools(st, c, tools, pre) ==
    IF tools = <<>> THEN st
    ELSE LET k == Head(tools).key
             s1 == SetStatus(st, k, "completed")
             s2 == IF s1.raised THEN s1
                   ELSE SendUpdate(s1, c, ItemEvent("item.updated", s1, k), pre)
             s3 == CreateFunctionCall(s2, c, k, pre)
         IN  CCCompleteTools(s3, c, Tail(tools), pre)

\* LLMChatProviderV1ChatCompletition._on_llm_chunk
CCOnLLMChunk(st, c, e, ch, n, pre) ==
    LET \* text content delta
        s1 == IF ~ch.content THEN st
              ELSE IF st.cur.msg = None
              THEN LET k == Len(st.items) + 1
                       a == AppendItem(st, c, e,
                                AssistentMessage(k, "assistant", <<n>>, "in_progress"))
                       b == [a EXCEPT !.cur.msg = k]
                   IN  SendUpdate(b, c, ItemEvent("item.appended", b, k), pre)
              ELSE SendUpdate(AddContent(st, st.cur.msg, <<n>>), c,
                              DeltaEvent(st.cur.msg, <<n>>), pre)
        \* tool calls delta
        s2 == IF ch.tool = None \/ s1.raised THEN s1
              ELSE IF ToolAt(s1.cur.tools, ch.tool) = None
              THEN LET k == Len(s1.items) + 1
                       a == [s1 EXCEPT !.cur.tools =
                                Append(s1.cur.tools, [index |-> ch.tool, key |-> k])]
                       b == AppendItem(a, c, e,
                                FunctionCall(k, n, "ping", <<PingArguments>>, "in_progress"))
                   IN  SendUpdate(b, c, ItemEvent("item.appended", b, k), pre)
              ELSE LET k == ToolAt(s1.cur.tools, ch.tool)
                   IN  [s1 EXCEPT !.items[k].arguments = @ \o <<PingArguments>>]
        \* finish reason
        s3 == IF s2.raised THEN s2
              ELSE IF ch.finish = "stop"
              THEN IF s2.cur.msg = None THEN s2
                   ELSE LET a == SetStatus(s2, s2.cur.msg, "completed")
                        IN  SendUpdate(a, c, ItemEvent("item.updated", a, s2.cur.msg), pre)
              ELSE IF ch.finish = "tool_calls"
              THEN CCCompleteTools(s2, c, s2.cur.tools, pre)
              ELSE s2
    IN  s3

\* the loop of _finalize_stream over self._current_tool_calls
RECURSIVE CCFinalizeTools(_, _, _, _)
CCFinalizeTools(st, c, tools, pre) ==
    IF tools = <<>> \/ st.raised THEN st
    ELSE LET k == Head(tools).key
             s3 == IF st.items[k].status # "in_progress" THEN st
                   ELSE LET s1 == SetStatus(st, k, "completed")
                            s2 == SendUpdate(s1, c, ItemEvent("item.updated", s1, k), pre)
                        IN  CreateFunctionCall(s2, c, k, pre)
         IN  CCFinalizeTools(s3, c, Tail(tools), pre)

\* LLMChatProviderV1ChatCompletition._finalize_stream
CCFinalizeStream(st, c, pre) ==
    LET m == st.cur.msg
        s1 == IF m # None /\ st.items[m].status = "in_progress"
              THEN LET a == SetStatus(st, m, "completed")
                   IN  SendUpdate(a, c, ItemEvent("item.updated", a, m), pre)
              ELSE st
        s2 == CCFinalizeTools(s1, c, s1.cur.tools, pre)
    IN  IF s2.raised THEN s2
        ELSE [s2 EXCEPT !.cur.msg = None, !.cur.tools = <<>>]

\* ----------------------------------------- message-block-style adapter events
MsgEvents ==
    {[type |-> "content_block_start", block |-> b] : b \in {"text", "thinking", "tool_use"}}
    \cup {[type |-> "content_block_delta", delta |-> d] :
            d \in {"text_delta", "thinking_delta", "input_json_delta"}}
    \cup {[type |-> ty] : ty \in {"content_block_stop", "message_start"}}

\* LLMChatProviderV1Messages._on_llm_event
MsgOnLLMEvent(st, c, e, ev, n, pre) ==
    CASE ev.type = "content_block_start" ->
            LET k == Len(st.items) + 1
                it == CASE ev.block = "text" ->
                               AssistentMessage(k, "assistant", <<>>, "in_progress")
                        [] ev.block = "thinking" ->
                               AssistentReasoning(k, <<>>, "in_progress")
                        [] ev.block = "tool_use" ->
                               FunctionCall(k, n, "ping", <<>>, "in_progress")
                s1 == AppendItem([st EXCEPT !.cur.block = k], c, e, it)
            IN  SendUpdate(s1, c, ItemEvent("item.appended", s1, k), pre)
      [] ev.type = "content_block_delta" ->
            LET k == st.cur.block
            IN  IF k = None THEN st
                ELSE CASE ev.delta = "text_delta" /\ st.items[k].cls = "AssistentMessage" ->
                            SendUpdate(AddContent(st, k, <<n>>), c, DeltaEvent(k, <<n>>), pre)
                       [] ev.delta = "thinking_delta"
                            /\ st.items[k].cls = "AssistentReasoning" ->
                            SendUpdate(AddContent(st, k, <<n>>), c, DeltaEvent(k, <<n>>), pre)
                       [] ev.delta = "input_json_delta"
                            /\ st.items[k].cls = "FunctionCall" ->
                            [st EXCEPT !.items[k].arguments = @ \o <<PingArguments>>]
                       [] OTHER -> st
      [] ev.type = "content_block_stop" ->
            LET k == st.cur.block
                s3 == IF k = None THEN st
                      ELSE LET s1 == SetStatus(st, k, "completed")
                               s2 == SendUpdate(s1, c, ItemEvent("item.updated", s1, k), pre)
                           IN  IF st.items[k].cls = "FunctionCall"
                               THEN CreateFunctionCall(s2, c, k, pre)
                               ELSE s2
            IN  IF s3.raised THEN s3 ELSE [s3 EXCEPT !.cur.block = None]
      [] OTHER -> st

\* --------------------------------------------------- the streaming loops
\* a chat turn ends: the permit is released and the task is done or failed
Leave(st, t) == [st EXCEPT !.ttab[t].pc = EndPc(st)]

\* one event block of the response-style stream
RespEvent(t, ev) ==
    /\ adapter = "response"
    /\ IsRunnable(t, "chat", "stream")
    /\ nev < MaxEvents
    /\ \E pre \in PreSets(ttab[t].conv) :
        LET st == RespOnLLMEvent(Cur, ttab[t].conv, ttab[t].target, ev, nev + 1, pre)
        IN  /\ Commit(IF st.raised THEN Leave(st, t) ELSE st)
            /\ permits' = IF st.raised THEN permits + 1 ELSE permits
    /\ nev' = nev + 1
    /\ UNCHANGED <<reader, adapter, Conversations, monitors, notify, ws, nlines>>

\* one data: line of the chat-completion-style stream
CCChunk(t, ch) ==
    /\ adapter = "chatcompletition"
    /\ IsRunnable(t, "chat", "stream")
    /\ nev < MaxEvents
    /\ \E pre \in PreSets(ttab[t].conv) :
        LET st == CCOnLLMChunk(Cur, ttab[t].conv, ttab[t].target, ch, nev + 1, pre)
        IN  /\ Commit(IF st.raised THEN Leave(st, t) ELSE st)
            /\ permits' = IF st.raised THEN permits + 1 ELSE permits
    /\ nev' = nev + 1
    /\ UNCHANGED <<reader, adapter, Conversations, monitors, notify, ws, nlines>>

\* one event of the message-block-style stream
MsgEvent(t, ev) ==
    /\ adapter = "messages"
    /\ IsRunnable(t, "chat", "stream")
    /\ nev < MaxEvents
    /\ \E pre \in PreSets(ttab[t].conv) :
        LET st == MsgOnLLMEvent(Cur, ttab[t].conv, ttab[t].target, ev, nev + 1, pre)
        IN  /\ Commit(IF st.raised THEN Leave(st, t) ELSE st)
            /\ permits' = IF st.raised THEN permits + 1 ELSE permits
    /\ nev' = nev + 1
    /\ UNCHANGED <<reader, adapter, Conversations, monitors, notify, ws, nlines>>

\* the lines of the response-style stream: the empty line, event: lines with
\* the event's type and a data: line whose JSON holds an item of type message
\* and a delta
SseLines ==
    {[name |-> "blank", value |-> "none"],
     [name |-> "event", value |-> "response.output_item.added"],
     [name |-> "event", value |-> "response.output_text.delta"],
     [name |-> "data", value |-> "message"]}

\* a read loop that hands over whatever it holds at an empty line
FlushAlways(event) == TRUE

\* if len(event) > 0
FlushNeeded(event) == Len(event) > 0

\* the last value in block of the lines named name, dflt when there is none:
\* the loop over event_items of _on_llm_event
LastValue(block, name, dflt) ==
    LET is == {i \in 1..Len(block) : block[i].name = name}
    IN  IF is = {} THEN dflt
        ELSE block[CHOOSE i \in is : \A j \in is : j <= i].value

\* _on_llm_event on a block of lines; event['data'] of a block without data
\* line is a KeyError
DispatchBlock(st, c, e, block, n, pre) ==
    LET type == LastValue(block, "event", "???")
        data == LastValue(block, "data", "missing")
    IN  IF type = "???" THEN st
        ELSE IF data = "missing" THEN [st EXCEPT !.raised = TRUE]
        ELSE RespOnLLMEvent(st, c, e, [type |-> type, item |-> data], n, pre)

\* the read loop of the response-style chat_request takes one line (one
\* chat turn reads lines at a time)
RespLine(t, line) ==
    /\ adapter = "response"
    /\ IsRunnable(t, "chat", "stream")
    /\ reader.task \in {0, t}
    /\ Len(reader.lines) < MaxSseLines
    /\ IF line.name = "blank" /\ FlushNeeded(reader.event)
       THEN /\ \E pre \in PreSets(ttab[t].conv) :
                LET st == DispatchBlock(Cur, ttab[t].conv, ttab[t].target,
                                        reader.event, Len(reader.blocks) + 1, pre)
                IN  /\ Commit(IF st.raised THEN Leave(st, t) ELSE st)
                    /\ permits' = IF st.raised THEN permits + 1 ELSE permits
            /\ reader' = [reader EXCEPT !.event = <<>>,
                                        !.lines = Append(@, line),
                                        !.blocks = Append(@, reader.event),
                                        !.task = t]
       ELSE /\ reader' = [reader EXCEPT
                            !.event = IF line.name = "blank" THEN @ ELSE Append(@, line),
                            !.lines = Append(@, line),
                            !.task = t]
            /\ UNCHANGED <<exchanges, items, tasks, ttab, permits, cur, logs, emitted,
                           statusLog>>
    /\ UNCHANGED <<adapter, Conversations, monitors, notify, ws, nev, nlines>>

\* the lines of a stream that are no event: one without the ": " (response
\* style) or the "data: " (the other two) the read loop looks for, and a data
\* line whose payload json.loads rejects
BadLines == {"malformed", "badjson"}

\* the read loop meets such a line.  The response-style loop returns on the
\* first kind, dropping the event block it was collecting, and calls
\* json.loads outside any try on the second; the other two loops skip the
\* first kind and catch the JSONDecodeError of the second, and read on.
BadLine(t, kind) ==
    /\ IsRunnable(t, "chat", "stream")
    /\ nev < MaxEvents
    /\ nev' = nev + 1
    /\ IF adapter = "response"
       THEN /\ ttab' = [ttab EXCEPT ![t].pc =
                            IF kind = "malformed" THEN "done" ELSE "failed"]
            /\ permits' = permits + 1
       ELSE UNCHANGED <<ttab, permits>>
    /\ UNCHANGED <<reader, adapter, Conversations, exchanges, items, monitors, tasks, notify,
                   cur, ws, nlines, logs, emitted, statusLog>>

\* a stream end that leaves the provider without releasing its permit
StreamEndHoldingPermit(t, done) ==
    /\ IsRunnable(t, "chat", "stream")
    /\ done => adapter = "chatcompletition"
    /\ ttab' = [ttab EXCEPT ![t].pc = "done"]
    /\ UNCHANGED <<adapter, Conversations, exchanges, items, monitors, tasks, notify,
                   permits, cur, ws, nev, nlines, logs, emitted, statusLog, reader>>

\* the stream ends.  done: the chat-completion stream ended with the [DONE]
\* sentinel (which runs _finalize_stream) and not by the connection closing.
\* The response-style loop hands over the block it still holds.
StreamEnd(t, done) ==
    /\ IsRunnable(t, "chat", "stream")
    /\ done => adapter = "chatcompletition"
    /\ LET flush == adapter = "response" /\ reader.task = t /\ FlushNeeded(reader.event)
       IN  /\ \E pre \in PreSets(ttab[t].conv) :
                LET st == IF adapter = "chatcompletition" /\ done
                          THEN CCFinalizeStream(Cur, ttab[t].conv, pre)
                          ELSE IF flush
                          THEN DispatchBlock(Cur, ttab[t].conv, ttab[t].target,
                                             reader.event, Len(reader.blocks) + 1, pre)
                          ELSE Cur
                IN  Commit(Leave(st, t))
           /\ reader' = IF flush
                        THEN [reader EXCEPT !.event = <<>>,
                                            !.blocks = Append(@, reader.event)]
                        ELSE reader
    /\ permits' = permits + 1
    /\ UNCHANGED <<adapter, Conversations, monitors, notify, ws, nev, nlines>>

\* ------------------------------------------------------ task_function_call
\* json.loads(function_call.arguments) succeeds and yields an object with a
\* json.loads(function_call.arguments): the adapters concatenate the fragments
\* the vendor sent, each fragment of the model is one whole JSON text, so the
\* concatenation parses when there was exactly one
JsonLoads(arguments) ==
    IF Len(arguments) = 1 THEN arguments[1]
    ELSE [json |-> "invalid", target |-> <<>>]

\* str.isalnum on the characters of the model
Alnum == {"8", "h", "r", "m", "f"}

\* a sanitizer that lets the space through as well
SanitizeKeepingSpace(target) ==
    SelectSeq(target, LAMBDA ch : ch \in Alnum \/ ch \in {".", "-", ":", " "})

\* "".join(c for c in target if c.isalnum() or c in ".-:")
Sanitize(target) ==
    SelectSeq(target, LAMBDA ch : ch \in Alnum \/ ch \in {".", "-", ":"})

\* tool_ping gets as far as create_subprocess_exec: the arguments parse to an
\* object whose target is not empty, also after sanitization
ParseOK(arguments) ==
    /\ JsonLoads(arguments).json = "object"
    /\ JsonLoads(arguments).target # <<>>
    /\ Sanitize(JsonLoads(arguments).target) # <<>>

\* an except clause that swallows the exception and records nothing
ExceptUnrecorded(st, k) == [st EXCEPT !.raised = FALSE]

\* the except clause of task_function_call (an ExceptionGroup is an Exception)
Except(st, k) ==
    IF ~st.raised THEN st
    ELSE [st EXCEPT !.raised = FALSE,
                    !.items[k].content = <<"Generic exception occurred. Try again.">>,
                    !.items[k].error = TRUE]

\* the finally clause of task_function_call
Finally(st, c, k, pre) ==
    LET s1 == SetStatus(st, k, "finished")
        s2 == SendUpdate(s1, c, ItemEvent("item.updated", s1, k), pre)
        s3 == IF s2.raised THEN s2
              ELSE [s2 EXCEPT !.exchanges[c] = Append(s2.exchanges[c], <<>>)]
    IN  ScheduleTask(s3, c, "chat", Len(s3.exchanges[c]), pre)

\* the three tasks tool_ping waits for: a readline of each pipe and
\* process.wait()
PingStreams == {"stdout", "stderr"}

PingTasks == PingStreams \cup {"return_code"}

\* what a readline hands over: a line, or nothing at end of file
ReadData == {<<>>, <<"line">>}

\* the exit statuses of the subprocess
ReturnCodes == {0, 1}

\* task_function_call from its start to the first read of the subprocess.
\* spawn: what create_subprocess_exec does ("ok", "enoent": FileNotFoundError,
\* "error": another exception).
ToolStart(t, spawn) ==
    /\ IsRunnable(t, "tool", "new")
    /\ \E pre \in PreSets(ttab[t].conv) :
        LET c == ttab[t].conv
            k == ttab[t].target
            s1 == SetStatus(Cur, k, "executing")
            s2 == SendUpdate(s1, c, ItemEvent("item.updated", s1, k), pre)
            \* the try block
            known == s2.items[k].name = "ping"
            \* tool_ping yields "validating": the loop body broadcasts
            s3 == IF known THEN SendUpdate(s2, c, ItemEvent("item.updated", s2, k), pre)
                  ELSE [s2 EXCEPT !.items[k].content =
                                     <<"Called unknown function, no result available.">>,
                                  !.items[k].error = TRUE]
            args == JsonLoads(s3.items[k].arguments)
            \* arguments.get of a value that is no dict: AttributeError, which
            \* leaves tool_ping
            s3b == IF known /\ ~s3.raised /\ args.json = "nonobject"
                   THEN [s3 EXCEPT !.raised = TRUE]
                   ELSE s3
            parsed == known /\ ~s3.raised /\ ParseOK(s3.items[k].arguments)
            started == parsed /\ spawn = "ok"
            \* the returns of tool_ping and its two except clauses
            s4 == IF known /\ ~s3b.raised /\ ~started
                  THEN [s3b EXCEPT !.items[k].error = TRUE]
                  ELSE s3b
        IN  IF s2.raised
            THEN Commit(Leave(s2, t))
            ELSE IF started
            THEN Commit([s4 EXCEPT !.ttab[t].pc = "running",
                                   !.ttab[t].cmd = <<"ping", "-c", "4",
                                                     Sanitize(args.target)>>,
                                   !.ttab[t].pending = PingTasks,
                                   !.ttab[t].return_code = 0])
            ELSE Commit(Leave(Finally(Except(s4, k), c, k, pre), t))
    /\ UNCHANGED <<reader, adapter, Conversations, monitors, notify, permits, ws, nev, nlines>>

\* a line of the subprocess's stdout or stderr: appended, then "progress"
ToolLine(t) ==
    /\ IsRunnable(t, "tool", "running")
    /\ nlines < MaxLines
    /\ \E pre \in PreSets(ttab[t].conv) :
        LET c == ttab[t].conv
            k == ttab[t].target
            s1 == AddContent(Cur, k, <<"line">>)
            s2 == SendUpdate(s1, c, ItemEvent("item.updated", s1, k), pre)
        IN  IF s2.raised
            THEN Commit(Leave(Finally(Except(s2, k), c, k, pre), t))
            ELSE Commit(s2)
    /\ nlines' = nlines + 1
    /\ UNCHANGED <<reader, adapter, Conversations, monitors, notify, permits, ws, nev>>

\* both pipes are at end of file and the process has exited with return_code
ToolExit(t, return_code) ==
    /\ IsRunnable(t, "tool", "running")
    /\ \E pre \in PreSets(ttab[t].conv) :
        LET c == ttab[t].conv
            k == ttab[t].target
            s1 == IF return_code = 0 THEN Cur
                  ELSE [AddContent(Cur, k, <<"Ping command failed with return code">>)
                         EXCEPT !.items[k].error = TRUE]
            \* tool_ping yields "completed"
            s2 == SendUpdate(s1, c, ItemEvent("item.updated", s1, k), pre)
        IN  Commit(Leave(Finally(Except(s2, k), c, k, pre), t))
    /\ UNCHANGED <<reader, adapter, Conversations, monitors, notify, permits, ws, nev, nlines>>

\* a read loop that stops as soon as the process has exited
LoopEndsAtExit(pending) == "return_code" \notin pending

\* while len(pending) > 0
LoopEnds(pending) == pending = {}

\* tool_ping after its loop (the failure check on return_code, "completed")
\* and the rest of task_function_call
AfterLoop(st, t, pre) ==
    LET c == st.ttab[t].conv
        k == st.ttab[t].target
        s1 == IF st.ttab[t].return_code = 0 THEN st
              ELSE [AddContent(st, k, <<"Ping command failed with return code">>)
                     EXCEPT !.items[k].error = TRUE]
        s2 == SendUpdate(s1, c, ItemEvent("item.updated", s1, k), pre)
    IN  Leave(Finally(Except(s2, k), c, k, pre), t)

\* a process.wait() whose result is dropped
WaitResultZero(return_code) == 0

\* task.result() of the process.wait() task
WaitResult(return_code) == return_code

\* the readline task of one pipe completes with data: a line is appended,
\* "progress" is yielded and the readline is created again; at end of file the
\* task is not created again, and the loop ends when nothing is pending
ToolRead(t, name, data) ==
    /\ IsRunnable(t, "tool", "running")
    /\ name \in ttab[t].pending \cap PingStreams
    /\ data # <<>> => nlines < MaxReads
    /\ \E pre \in PreSets(ttab[t].conv) :
        LET c == ttab[t].conv
            k == ttab[t].target
            s1 == AddContent(Cur, k, data)
            s2 == SendUpdate(s1, c, ItemEvent("item.updated", s1, k), pre)
            s3 == [Cur EXCEPT !.ttab[t].pending = @ \ {name}]
        IN  IF data # <<>>
            THEN IF s2.raised
                 THEN Commit(Leave(Finally(Except(s2, k), c, k, pre), t))
                 ELSE Commit(s2)
            ELSE IF LoopEnds(s3.ttab[t].pending)
            THEN Commit(AfterLoop(s3, t, pre))
            ELSE Commit(s3)
    /\ nlines' = IF data # <<>> THEN nlines + 1 ELSE nlines
    /\ UNCHANGED <<reader, adapter, Conversations, monitors, notify, permits, ws, nev>>

\* the process.wait() task completes: return_code is what the process reports
ToolWait(t, return_code) ==
    /\ IsRunnable(t, "tool", "running")
    /\ "return_code" \in ttab[t].pending
    /\ \E pre \in PreSets(ttab[t].conv) :
        LET s1 == [Cur EXCEPT !.ttab[t].pending = @ \ {"return_code"},
                              !.ttab[t].return_code = WaitResult(return_code)]
        IN  IF LoopEnds(s1.ttab[t].pending)
            THEN Commit(AfterLoop(s1, t, pre))
            ELSE Commit(s1)
    /\ UNCHANGED <<reader, adapter, Conversations, monitors, notify, permits, ws, nev, nlines>>

\* ---------------------------------------------------- schedule_task, the end
\* a done callback that removes the task and reports nothing
OnTaskDoneSilent(t) ==
    /\ t \in 1..Len(ttab)
    /\ ttab[t].pc \in {"done", "failed"}
    /\ t \in Range(tasks[ttab[t].conv])
    /\ tasks' = [tasks EXCEPT ![ttab[t].conv] = Remove(@, t)]
    /\ UNCHANGED <<reader, adapter, Conversations, exchanges, items, monitors, ttab, notify,
                   permits, cur, ws, nev, nlines, logs, emitted, statusLog>>

\* on_task_done: the callback of a task that returned or raised
OnTaskDone(t) ==
    /\ t \in 1..Len(ttab)
    /\ ttab[t].pc \in {"done", "failed"}
    /\ t \in Range(tasks[ttab[t].conv])
    /\ tasks' = [tasks EXCEPT ![ttab[t].conv] = Remove(@, t)]
    /\ notify' = [notify EXCEPT ![ttab[t].conv] = @ + 1]
    /\ UNCHANGED <<reader, adapter, Conversations, exchanges, items, monitors, ttab, permits,
                   cur, ws, nev, nlines, logs, emitted, statusLog>>

\* the send_update_tasks task that on_task_done created; nobody awaits it
NotifyTasks(c) ==
    /\ notify[c] > 0
    /\ notify' = [notify EXCEPT ![c] = @ - 1]
    /\ \E pre \in PreSets(c) : Commit(SendUpdateTasks(Cur, c, pre))
    /\ UNCHANGED <<reader, adapter, Conversations, monitors, permits, ws, nev, nlines>>

\* ------------------------------------------------------ websocket handler
\* an identifier drawn without the look-up in the registry
DrawnConversationId == CHOOSE x \in ConvIds : \A y \in ConvIds : x <= y

\* create_conversation draws identifiers until one is not in the registry
NewConversationId ==
    CHOOSE x \in ConvIds \ Conversations : \A y \in ConvIds \ Conversations : x <= y

\* ws_conversation up to the chat.mounted message.  q is the conversation_id
\* query parameter (None: absent).
WsConnect(m, q) ==
    /\ ws[m].pc = "idle"
    /\ IF q = None
       THEN \* create_conversation: a fresh identifier
            /\ ConvIds \ Conversations # {}
            /\ LET c == NewConversationId
               IN  /\ Conversations' = Conversations \cup {c}
                   /\ ws' = [ws EXCEPT ![m].pc = "mounted", ![m].conv = c]
                   /\ logs' = [logs EXCEPT ![m] =
                        Append(@, [type |-> "chat.mounted", conversation_id |-> c])]
       ELSE IF q \in Conversations
       THEN \* get_conversation finds it
            /\ Conversations' = Conversations
            /\ ws' = [ws EXCEPT ![m].pc = "mounted", ![m].conv = q]
            /\ logs' = [logs EXCEPT ![m] =
                        Append(@, [type |-> "chat.mounted", conversation_id |-> q])]
       ELSE \* get_conversation calls create_conversation(conversation_id), which
            \* takes no argument: TypeError, the request fails before ws.prepare
            /\ Conversations' = Conversations
            /\ ws' = [ws EXCEPT ![m].pc = "failed"]
            /\ logs' = logs
    /\ UNCHANGED <<reader, adapter, exchanges, items, monitors, tasks, ttab, notify, permits,
                   cur, nev, nlines, emitted, statusLog>>

\* send_full_update(conversation, reply_to_client) before the monitor is added;
\* an exception of the send is caught and logged
WsSnapshot(m) ==
    /\ ws[m].pc = "mounted"
    /\ ws' = [ws EXCEPT ![m].pc = "snapshot", ![m].snap = Len(emitted)]
    /\ logs' = [logs EXCEPT ![m] =
                    IF ws[m].broken THEN @ ELSE Append(@, FullUpdate(ws[m].conv))]
    /\ UNCHANGED <<reader, adapter, Conversations, exchanges, items, monitors, tasks, ttab,
                   notify, permits, cur, nev, nlines, emitted, statusLog>>

\* conversation.monitors.add(reply_to_client), once the send above has returned
WsAttach(m) ==
    /\ ws[m].pc = "snapshot"
    /\ ws' = [ws EXCEPT ![m].pc = "attached"]
    /\ monitors' = [monitors EXCEPT ![ws[m].conv] = @ \cup {m}]
    /\ UNCHANGED <<reader, adapter, Conversations, exchanges, items, tasks, ttab, notify,
                   permits, cur, nev, nlines, logs, emitted, statusLog>>

\* the finally of ws_conversation
Discard(m) == [monitors EXCEPT ![ws[m].conv] = @ \ {m}]

\* a user.message.created message: create_exchange; an exception closes the
\* websocket and ends the loop
WsUserMessage(m, model) ==
    /\ ws[m].pc = "attached"
    /\ ~ws[m].broken
    /\ ws[m].sent < MaxUserMessages
    /\ \E pre \in PreSets(ws[m].conv) :
        LET c == ws[m].conv
            st == CreateExchange(Cur, c, <<"hello">>, model, pre)
        IN  /\ Commit(st)
            /\ IF st.raised
               THEN /\ ws' = [ws EXCEPT ![m].pc = "closed", ![m].sent = @ + 1]
                    /\ monitors' = Discard(m)
               ELSE /\ ws' = [ws EXCEPT ![m].sent = @ + 1]
                    /\ monitors' = monitors
    /\ UNCHANGED <<reader, adapter, Conversations, notify, permits, nev, nlines>>

\* an update.full.requested message
WsFullRequested(m) ==
    /\ ws[m].pc = "attached"
    /\ ~ws[m].broken
    /\ Cardinality({i \in 1..Len(logs[m]) : logs[m][i].type = "update.full"}) <= MaxResync
    /\ logs' = [logs EXCEPT ![m] = Append(@, FullUpdate(ws[m].conv))]
    /\ UNCHANGED <<reader, adapter, Conversations, exchanges, items, monitors, tasks, ttab,
                   notify, permits, cur, ws, nev, nlines, emitted, statusLog>>

\* the values of data.get('type') that match neither case: another string,
\* or None when the message has no type
OtherTypes == {"chat.typing", "None"}

\* a message that is treated as the handler treats an exception: the
\* websocket is closed and the loop left
WsUnknownMessageClosing(m, ty) ==
    /\ ws[m].pc = "attached"
    /\ ~ws[m].broken
    /\ ws[m].warned < MaxUnknown
    /\ ws' = [ws EXCEPT ![m].pc = "closed", ![m].warned = @ + 1]
    /\ monitors' = [monitors EXCEPT ![ws[m].conv] = @ \ {m}]
    /\ UNCHANGED <<reader, adapter, Conversations, exchanges, items, tasks, ttab, notify,
                   permits, cur, nev, nlines, logs, emitted, statusLog>>

\* a message of any other type: case _ logs a warning (counted in warned)
\* and the loop takes the next message
WsUnknownMessage(m, ty) ==
    /\ ws[m].pc = "attached"
    /\ ~ws[m].broken
    /\ ws[m].warned < MaxUnknown
    /\ ws' = [ws EXCEPT ![m].warned = @ + 1]
    /\ UNCHANGED <<reader, adapter, Conversations, exchanges, items, monitors, tasks, ttab,
                   notify, permits, cur, nev, nlines, logs, emitted, statusLog>>

\* the transport of the connection fails: every later send on it raises
WsBreak(m) ==
    /\ ws[m].pc = "attached"
    /\ ~ws[m].broken
    /\ ws' = [ws EXCEPT ![m].broken = TRUE]
    /\ UNCHANGED <<reader, adapter, Conversations, exchanges, items, monitors, tasks, ttab,
                   notify, permits, cur, nev, nlines, logs, emitted, statusLog>>

\* a message loop that ends and leaves its monitor registered
WsCloseKeepingMonitor(m) ==
    /\ ws[m].pc = "attached"
    /\ ws' = [ws EXCEPT ![m].pc = "closed"]
    /\ UNCHANGED <<reader, adapter, Conversations, exchanges, items, monitors, tasks, ttab,
                   notify, permits, cur, nev, nlines, logs, emitted, statusLog>>

\* the message loop ends (close frame, transport error): the finally discards
WsClose(m) ==
    /\ ws[m].pc = "attached"
    /\ ws' = [ws EXCEPT ![m].pc = "closed"]
    /\ monitors' = Discard(m)
    /\ UNCHANGED <<reader, adapter, Conversations, exchanges, items, tasks, ttab, notify,
                   permits, cur, nev, nlines, logs, emitted, statusLog>>

TaskIds == 1..MaxTasks

\* the steps of the tasks schedule_task created, whatever the adapter
ServiceSteps ==
    \E t \in TaskIds :
        \/ \E http_ok \in BOOLEAN : ChatStart(t, http_ok, TRUE)
        \/ \E done \in BOOLEAN : StreamEnd(t, done)
        \/ \E spawn \in {"ok", "enoent", "error"} : ToolStart(t, spawn)
        \/ ToolLine(t)
        \/ \E return_code \in {0, 1} : ToolExit(t, return_code)
        \/ OnTaskDone(t)

\* a chat turn between its start and its end, the tool tasks left aside
ChatSteps ==
    \E t \in TaskIds :
        \/ \E http_ok \in BOOLEAN : ChatStart(t, http_ok, TRUE)
        \/ \E done \in BOOLEAN : StreamEnd(t, done)
        \/ OnTaskDone(t)

RespSteps == \E t \in TaskIds : \E ev \in RespEvents : RespEvent(t, ev)

CCSteps == \E t \in TaskIds : \E ch \in CCChunks : CCChunk(t, ch)

MsgSteps == \E t \in TaskIds : \E ev \in MsgEvents : MsgEvent(t, ev)

\* the completions of the three tasks tool_ping waits for, one at a time
PingSteps ==
    \E t \in TaskIds :
        \/ \E name \in PingStreams : \E data \in ReadData : ToolRead(t, name, data)
        \/ \E return_code \in ReturnCodes : ToolWait(t, return_code)

LineSteps == \E t \in TaskIds : \E line \in SseLines : RespLine(t, line)

TaskNext == ServiceSteps \/ RespSteps \/ CCSteps \/ MsgSteps

NotifyNext == \E c \in ConvIds : NotifyTasks(c)

\* a connection: mounted, snapshot, attached, then its messages
WsSession(m, qs) ==
    \/ \E q \in qs : WsConnect(m, q)
    \/ WsSnapshot(m)
    \/ WsAttach(m)
    \/ \E model \in Models : WsUserMessage(m, model)

\* the whole system
Next ==
    \/ \E m \in Mons :
        \/ WsSession(m, {None} \cup ConvIds)
        \/ WsFullRequested(m)
        \/ \E ty \in OtherTypes : WsUnknownMessage(m, ty)
        \/ WsBreak(m)
        \/ WsClose(m)
    \/ TaskNext
    \/ LineSteps
    \/ PingSteps
    \/ NotifyNext

Spec == Init /\ [][Next]_vars

\* the service as service.py wires it: Providers[0] is the response-style adapter
InitResponse == Init /\ adapter = "response"

\* one client, one conversation: the streams of the three adapters and the
\* tool calls
NextStream ==
    \/ WsSession("m1", {None})
    \/ TaskNext
    \/ NotifyNext

SpecStream == Init /\ [][NextStream]_vars

\* the event loop runs every done callback it was handed (call_soon) and every
\* task that was created and is ready: the callbacks of ended tasks and the
\* send_update_tasks tasks they create are not postponed for ever
SpecStreamFair ==
    /\ SpecStream
    /\ WF_vars(\E t \in TaskIds : OnTaskDone(t))
    /\ WF_vars(NotifyNext)

\* two clients of one conversation; the transport of the second can fail
NextFanout ==
    \/ WsSession("m1", {None})
    \/ WsConnect("m2", 1)
    \/ WsSnapshot("m2")
    \/ WsAttach("m2")
    \/ WsBreak("m2")
    \/ WsClose("m2")
    \/ ServiceSteps
    \/ RespSteps
    \/ NotifyNext

SpecFanout == InitResponse /\ [][NextFanout]_vars

\* a second client joins the conversation of the first at any moment, and can
\* ask for the snapshot again
NextAttach ==
    \/ WsSession("m1", {None})
    \/ WsConnect("m2", 1)
    \/ WsSnapshot("m2")
    \/ WsAttach("m2")
    \/ WsFullRequested("m2")
    \/ ServiceSteps
    \/ RespSteps
    \/ NotifyNext

SpecAttach == InitResponse /\ [][NextAttach]_vars

\* two clients, each with a conversation of its own, whose chat turns stream
\* at the same time; the tool tasks they schedule have not started yet
NextTwo ==
    \/ \E m \in Mons : WsSession(m, {None})
    \/ ChatSteps
    \/ RespSteps
    \/ CCSteps
    \/ MsgSteps
    \/ NotifyNext

SpecTwo == Init /\ [][NextTwo]_vars

\* one client and the decoding of the three adapters' streams; the tool tasks
\* the streams schedule have not started yet
NextDecode ==
    \/ WsSession("m1", {None})
    \/ ChatSteps
    \/ RespSteps
    \/ CCSteps
    \/ MsgSteps
    \/ NotifyNext

SpecDecode == Init /\ [][NextDecode]_vars

\* one client that also sends messages of other types and asks for the
\* snapshot again, while the response adapter streams
NextMessages ==
    \/ WsSession("m1", {None})
    \/ WsFullRequested("m1")
    \/ \E ty \in OtherTypes : WsUnknownMessage("m1", ty)
    \/ ChatSteps
    \/ RespSteps
    \/ NotifyNext

SpecMessages == InitResponse /\ [][NextMessages]_vars

\* one client and the lines of the response-style stream of its chat turn
NextLines ==
    \/ WsSession("m1", {None})
    \/ ChatSteps
    \/ LineSteps
    \/ NotifyNext

SpecLines == InitResponse /\ [][NextLines]_vars

\* one client whose transport can fail and whose message loop can end at any
\* moment, while the chat turns and tool calls of its conversation run
NextLeave ==
    \/ WsSession("m1", {None})
    \/ WsBreak("m1")
    \/ WsClose("m1")
    \/ ServiceSteps
    \/ RespSteps
    \/ NotifyNext

SpecLeave == InitResponse /\ [][NextLeave]_vars

\* two clients, each asking for a new conversation or for one by identifier,
\* known or not; their chat turns start and end
NextRegistry ==
    \/ \E m \in Mons : WsSession(m, {None} \cup ConvIds)
    \/ ChatSteps
    \/ NotifyNext

SpecRegistry == InitResponse /\ [][NextRegistry]_vars

\* ------------------------------------------- a conversation already stored
SeqsUpTo(S, n) == UNION {[1..i -> S] : i \in 0..n}

AssistantClasses == {"AssistentMessage", "AssistentReasoning", "FunctionCall"}

\* the classes of the items of one exchange: create_exchange starts it with a
\* UserMessage, the finally clause of task_function_call starts it empty; the
\* adapters then append assistant items in any order
ExchangeShapes ==
    LET tails == SeqsUpTo(AssistantClasses, MaxStoredItems)
    IN  tails \cup {<<"UserMessage">> \o s : s \in tails}

\* the exchanges of a conversation: the first one was created for a user
\* message, and one that was not follows a function call
ConversationShapes ==
    {sh \in SeqsUpTo(ExchangeShapes, MaxStoredExchanges) :
        /\ Len(sh) >= 1
        /\ \A e \in 1..Len(sh) :
              \/ sh[e] # <<>> /\ sh[e][1] = "UserMessage"
              \/ \E d \in 1..(e - 1) : \E i \in 1..Len(sh[d]) : sh[d][i] = "FunctionCall"}

\* an item of class cls at rest: a turn that ended, a tool call that finished
StoredItem(cls, k) ==
    CASE cls = "UserMessage" -> UserMessage(k, <<"hello">>, "gpt")
      [] cls = "AssistentMessage" -> AssistentMessage(k, "assistant", <<k>>, "completed")
      [] cls = "AssistentReasoning" -> AssistentReasoning(k, <<k>>, "completed")
      [] cls = "FunctionCall" ->
            [FunctionCall(k, k, "ping", <<PingArguments>>, "finished")
                EXCEPT !.content = <<"line">>]

RECURSIVE ShapeOffset(_, _)
ShapeOffset(sh, e) == IF e <= 1 THEN 0 ELSE ShapeOffset(sh, e - 1) + Len(sh[e - 1])

\* conversation 1 is in the registry with exchanges of some shape, no task in
\* flight and no monitor; the histories start here
InitStored ==
    \E sh \in ConversationShapes :
        LET flat == Flatten(sh)
        IN  /\ adapter = "response"
            /\ Conversations = {1}
            /\ items = [k \in 1..Len(flat) |-> StoredItem(flat[k], k)]
            /\ exchanges = [c \in ConvIds |->
                    IF c = 1
                    THEN [e \in 1..Len(sh) |->
                            [i \in 1..Len(sh[e]) |-> ShapeOffset(sh, e) + i]]
                    ELSE <<>>]
            /\ statusLog = [k \in 1..Len(flat) |->
                    IF flat[k] = "UserMessage" THEN <<>>
                    ELSE <<StoredItem(flat[k], k).status>>]
            /\ monitors = [c \in ConvIds |-> {}]
            /\ tasks = [c \in ConvIds |-> <<>>]
            /\ ttab = <<>>
            /\ notify = [c \in ConvIds |-> 0]
            /\ permits = SemaphoreValue
            /\ cur = [msg |-> None, tools |-> <<>>, block |-> None]
            /\ ws = [m \in Mons |-> [pc |-> "idle", conv |-> None, broken |-> FALSE,
                                     sent |-> 0, snap |-> 0, warned |-> 0]]
            /\ nev = 0
            /\ nlines = 0
            /\ logs = [m \in Mons |-> <<>>]
            /\ emitted = <<>>
            /\ reader = NoLines

\* MaxTasks user messages were accepted, each into either conversation, and
\* their chat turns are scheduled; the clients have left
InitQueued ==
    \E a \in Adapters : \E cv \in [1..MaxTasks -> ConvIds] :
        /\ adapter = a
        /\ Conversations = ConvIds
        /\ items = [k \in 1..MaxTasks |-> UserMessage(k, <<"hello">>, "gpt")]
        /\ exchanges = [c \in ConvIds |->
                [e \in 1..Cardinality({k \in 1..MaxTasks : cv[k] = c}) |->
                    <<CHOOSE k \in 1..MaxTasks :
                        /\ cv[k] = c
                        /\ Cardinality({j \in 1..k : cv[j] = c}) = e>>]]
        /\ statusLog = [k \in 1..MaxTasks |-> <<>>]
        /\ monitors = [c \in ConvIds |-> {}]
        /\ ttab = [k \in 1..MaxTasks |->
                [kind |-> "chat", conv |-> cv[k],
                 target |-> Cardinality({j \in 1..k : cv[j] = cv[k]}),
                 pc |-> "new", model |-> NoModel, cmd |-> <<>>,
                  pending |-> {}, return_code |-> 0]]
        /\ tasks = [c \in ConvIds |->
                [e \in 1..Cardinality({k \in 1..MaxTasks : cv[k] = c}) |->
                    CHOOSE k \in 1..MaxTasks :
                        /\ cv[k] = c
                        /\ Cardinality({j \in 1..k : cv[j] = c}) = e]]
        /\ notify = [c \in ConvIds |-> 0]
        /\ permits = SemaphoreValue
        /\ cur = [msg |-> None, tools |-> <<>>, block |-> None]
        /\ ws = [m \in Mons |-> [pc |-> "idle", conv |-> None, broken |-> FALSE,
                                 sent |-> 0, snap |-> 0, warned |-> 0]]
        /\ nev = 0
        /\ nlines = 0
        /\ logs = [m \in Mons |-> <<>>]
        /\ emitted = <<>>
        /\ reader = NoLines

\* the queued chat turns compete for the provider; the vendor's streams carry
\* no event
NextQueued ==
    \/ ChatSteps
    \/ NotifyNext

SpecQueued == InitQueued /\ [][NextQueued]_vars

\* the queued chat turns against a backend that may refuse a request, answer
\* with another content type, put lines that are no event into its stream
\* or end it
NextPermits ==
    \/ \E t \in TaskIds : \E http_ok, sse \in BOOLEAN : ChatStart(t, http_ok, sse)
    \/ \E t \in TaskIds : \E done \in BOOLEAN : StreamEnd(t, done)
    \/ \E t \in TaskIds : \E kind \in BadLines : BadLine(t, kind)
    \/ \E t \in TaskIds : OnTaskDone(t)
    \/ NotifyNext

\* a task waiting for the semaphore is woken when a permit is released and
\* the event loop runs every task that is ready; the streams that run end
SpecPermitsFair ==
    /\ InitQueued
    /\ [][NextPermits]_vars
    /\ WF_vars(\E t \in TaskIds : \E http_ok, sse \in BOOLEAN : ChatStart(t, http_ok, sse))
    /\ WF_vars(\E t \in TaskIds : \E done \in BOOLEAN : StreamEnd(t, done))

\* one client and one chat turn against a backend that may answer with any
\* status and content type and put lines that are no event into its stream
NextRefuse ==
    \/ WsSession("m1", {None})
    \/ \E t \in TaskIds : \E http_ok, sse \in BOOLEAN : ChatStart(t, http_ok, sse)
    \/ \E t \in TaskIds : \E done \in BOOLEAN : StreamEnd(t, done)
    \/ \E t \in TaskIds : OnTaskDone(t)
    \/ \E t \in TaskIds : \E kind \in BadLines : BadLine(t, kind)
    \/ RespSteps
    \/ CCSteps
    \/ MsgSteps
    \/ NotifyNext

SpecRefuse == Init /\ [][NextRefuse]_vars

\* ------------------------------------------------ a dispatched tool call
\* the characters targets are drawn from: a digit, an allowed punctuation
\* mark, a shell metacharacter and the space
Chars == {"8", ".", ";", " "}

\* "8.8.8.8; rm -rf /"
InjectionTarget ==
    <<"8", ".", "8", ".", "8", ".", "8", ";", " ", "r", "m", " ", "-", "r", "f", " ", "/">>

Targets == SeqsUpTo(Chars, MaxTargetLen) \cup {InjectionTarget}

\* the argument texts a vendor can put into a function call
ArgumentTexts ==
    {[json |-> j, target |-> <<>>] : j \in {"invalid", "nonobject", "notarget"}}
    \cup {[json |-> "object", target |-> s] : s \in Targets}

\* the function names a vendor can put into a function call
FunctionNames == {"ping", "traceroute"}

\* a chat turn of conversation 1 appended a FunctionCall of any name and
\* arguments, completed and dispatched it and has ended; monitor m1 is
\* attached; the histories start here
InitTool ==
    \E a \in Adapters : \E name \in FunctionNames :
    \E arguments \in {<<>>} \cup {<<x>> : x \in ArgumentTexts} :
        /\ adapter = a
        /\ Conversations = {1}
        /\ items = <<UserMessage(1, <<"hello">>, "gpt"),
                     FunctionCall(2, 2, name, arguments, "completed")>>
        /\ exchanges = [c \in ConvIds |-> IF c = 1 THEN <<<<1, 2>>>> ELSE <<>>]
        /\ statusLog = <<<<>>, <<"in_progress", "completed">>>>
        /\ monitors = [c \in ConvIds |-> IF c = 1 THEN {"m1"} ELSE {}]
        /\ tasks = [c \in ConvIds |-> IF c = 1 THEN <<2>> ELSE <<>>]
        /\ ttab = <<[kind |-> "chat", conv |-> 1, target |-> 1, pc |-> "done",
                     model |-> "gpt", cmd |-> <<>>,
                  pending |-> {}, return_code |-> 0],
                    [kind |-> "tool", conv |-> 1, target |-> 2, pc |-> "new",
                     model |-> NoModel, cmd |-> <<>>,
                  pending |-> {}, return_code |-> 0]>>
        /\ notify = [c \in ConvIds |-> 0]
        /\ permits = SemaphoreValue
        /\ cur = [msg |-> None, tools |-> <<>>, block |-> None]
        /\ ws = [m \in Mons |->
                    IF m = "m1"
                    THEN [pc |-> "attached", conv |-> 1, broken |-> FALSE,
                          sent |-> 1, snap |-> 0, warned |-> 0]
                    ELSE [pc |-> "idle", conv |-> None, broken |-> FALSE,
                          sent |-> 0, snap |-> 0, warned |-> 0]]
        /\ nev = 0
        /\ nlines = 0
        /\ logs = [m \in Mons |-> <<>>]
        /\ emitted = <<>>
        /\ reader = NoLines

\* the tool call runs and is reaped; the monitor's transport can fail
NextTool ==
    \/ WsBreak("m1")
    \/ \E t \in TaskIds : \E spawn \in {"ok", "enoent", "error"} : ToolStart(t, spawn)
    \/ \E t \in TaskIds : ToolLine(t)
    \/ \E t \in TaskIds : \E return_code \in {0, 1} : ToolExit(t, return_code)
    \/ \E t \in TaskIds : OnTaskDone(t)
    \/ NotifyNext

SpecTool == InitTool /\ [][NextTool]_vars

\* the subprocess of one tool call: its two pipes and its exit, in any order
NextPing ==
    \/ \E t \in TaskIds : \E spawn \in {"ok", "enoent", "error"} : ToolStart(t, spawn)
    \/ PingSteps
    \/ \E t \in TaskIds : OnTaskDone(t)
    \/ NotifyNext

SpecPing == InitTool /\ [][NextPing]_vars

\* the model names of stored user messages
ModelNames == {"gpt", "llama"}

\* a Conversation object of any shape the data model admits, its user messages
\* naming any models, with a chat turn scheduled on its newest exchange
InitResolve ==
    \E sh \in SeqsUpTo(ExchangeShapes, MaxStoredExchanges) \ {<<>>} :
        LET flat == Flatten(sh)
            users == {k \in 1..Len(flat) : flat[k] = "UserMessage"}
        IN  \E other \in SUBSET users :
            /\ adapter = "response"
            /\ Conversations = {1}
            /\ items = [k \in 1..Len(flat) |->
                    IF k \in users
                    THEN UserMessage(k, <<"hello">>, IF k \in other THEN "llama" ELSE "gpt")
                    ELSE StoredItem(flat[k], k)]
            /\ exchanges = [c \in ConvIds |->
                    IF c = 1
                    THEN [e \in 1..Len(sh) |->
                            [i \in 1..Len(sh[e]) |-> ShapeOffset(sh, e) + i]]
                    ELSE <<>>]
            /\ statusLog = [k \in 1..Len(flat) |->
                    IF flat[k] = "UserMessage" THEN <<>>
                    ELSE <<StoredItem(flat[k], k).status>>]
            /\ monitors = [c \in ConvIds |-> {}]
            /\ tasks = [c \in ConvIds |-> IF c = 1 THEN <<1>> ELSE <<>>]
            /\ ttab = <<[kind |-> "chat", conv |-> 1, target |-> Len(sh), pc |-> "new",
                         model |-> NoModel, cmd |-> <<>>,
                  pending |-> {}, return_code |-> 0]>>
            /\ notify = [c \in ConvIds |-> 0]
            /\ permits = SemaphoreValue
            /\ cur = [msg |-> None, tools |-> <<>>, block |-> None]
            /\ ws = [m \in Mons |-> [pc |-> "idle", conv |-> None, broken |-> FALSE,
                                     sent |-> 0, snap |-> 0, warned |-> 0]]
            /\ nev = 0
            /\ nlines = 0
            /\ logs = [m \in Mons |-> <<>>]
            /\ emitted = <<>>
            /\ reader = NoLines

\* the chat turn starts: chat_request resolves the model
NextResolve == \E t \in TaskIds : \E http_ok \in BOOLEAN : ChatStart(t, http_ok, TRUE)

SpecResolve == InitResolve /\ [][NextResolve]_vars

\* a client mounts the stored conversation, is sent the snapshot, is
\* registered and asks for the snapshot again
NextStored ==
    \/ WsConnect("m1", 1)
    \/ WsSnapshot("m1")
    \/ WsAttach("m1")
    \/ WsFullRequested("m1")

SpecStored == InitStored /\ [][NextStored]_vars

\* ------------------------------------------------------------ properties
\* the key an event refers to, None for an event about no item
EventKey(ev) ==
    IF ev.type = "item.delta" THEN ev.key
    ELSE IF ev.type \in {"item.appended", "item.updated"} THEN ev.item.key
    ELSE None

Lifecycle == <<"in_progress", "completed", "executing", "finished">>

Rank(v) == CHOOSE i \in 1..Len(Lifecycle) : Lifecycle[i] = v

\* C1: every FunctionCall starts in_progress and each assignment to its status
\* keeps the status or moves it one step forward along in_progress, completed,
\* executing, finished: no state is skipped and none is returned to.
C1_StatusMovesForward ==
    \A k \in 1..Len(items) :
        items[k].cls = "FunctionCall" =>
            /\ statusLog[k][1] = "in_progress"
            /\ \A i \in 1..(Len(statusLog[k]) - 1) :
                  \/ statusLog[k][i + 1] = statusLog[k][i]
                  \/ Rank(statusLog[k][i + 1]) = Rank(statusLog[k][i]) + 1

\* C2: every send_update call whose send to one monitor raised has still written
\* the event to every other monitor registered at the call.
C2_PeersStillReceive ==
    \A i \in 1..Len(emitted) : emitted[i].got = emitted[i].mons \ emitted[i].failed

\* C3: a monitor whose send raises makes no tool-call task end by an exception
\* (so each reaches its finally clause's end: finished, follow-up scheduled), and
\* does not end the handler of the other client (m1's handler ends only when its
\* create_exchange call raises).
C3_FailureStaysWithMonitor ==
    /\ \A t \in 1..Len(ttab) : ttab[t].kind = "tool" => ttab[t].pc # "failed"
    /\ ws["m1"].pc # "closed"

\* C4: no conversation has a tool-call task running while one of its chat turns
\* is still decoding its stream.
C4_ChatAndToolSequenced ==
    \A t1, t2 \in 1..Len(ttab) :
        ~ /\ ttab[t1].conv = ttab[t2].conv
          /\ ttab[t1].kind = "chat" /\ ttab[t1].pc = "stream"
          /\ ttab[t2].kind = "tool" /\ ttab[t2].pc = "running"

\* C5: every item event broadcast for a conversation refers to an item of an
\* exchange of that conversation.
C5_EventsOfOwnItems ==
    \A i \in 1..Len(emitted) :
        EventKey(emitted[i].ev) # None =>
            EventKey(emitted[i].ev) \in Range(Flatten(exchanges[emitted[i].conv]))

\* C6: on every connection an item.delta for a key comes after an item.appended
\* for that key on the same connection.
C6_DeltaAfterAppended ==
    \A m \in Mons : \A i \in 1..Len(logs[m]) :
        logs[m][i].type = "item.delta" =>
            \E j \in 1..(i - 1) :
                /\ logs[m][j].type = "item.appended"
                /\ logs[m][j].item.key = logs[m][i].key

\* the content a client rebuilds for key k from the first n events emitted: the
\* content of the item.appended event, then each delta appended in order
RECURSIVE Rebuilt(_, _)
Rebuilt(k, n) ==
    IF n = 0 THEN <<>>
    ELSE LET ev == emitted[n].ev
             before == Rebuilt(k, n - 1)
         IN  IF ev.type = "item.appended" /\ ev.item.key = k THEN ev.item.content
             ELSE IF ev.type = "item.delta" /\ ev.key = k THEN before \o ev.delta
             ELSE before

\* C7: for every assistant message and reasoning item, the content of its
\* item.appended event followed by the deltas emitted for its key, in emission
\* order, is the content each later item.updated event of the item carries, and
\* the content the item holds.
C7_DeltasRebuildContent ==
    \A k \in 1..Len(items) :
        items[k].cls \in {"AssistentMessage", "AssistentReasoning"} =>
            /\ Rebuilt(k, Len(emitted)) = items[k].content
            /\ \A n \in 1..Len(emitted) :
                  (emitted[n].ev.type = "item.updated" /\ emitted[n].ev.item.key = k) =>
                      emitted[n].ev.item.content = Rebuilt(k, n)

C7_Witness ==
    \E k \in 1..Len(items) : \E a, b, c \in 1..Len(emitted) :
        /\ items[k].cls \in {"AssistentMessage", "AssistentReasoning"}
        /\ a < b /\ b < c
        /\ emitted[a].ev.type = "item.appended" /\ emitted[a].ev.item.key = k
        /\ emitted[b].ev.type = "item.delta" /\ emitted[b].ev.key = k
        /\ emitted[c].ev.type = "item.updated" /\ emitted[c].ev.item.key = k
        /\ items[k].content # <<>>

\* the position in logs[m] of the first snapshot, 0 when there is none
FirstFull(m) ==
    IF \E i \in 1..Len(logs[m]) : logs[m][i].type = "update.full"
    THEN CHOOSE i \in 1..Len(logs[m]) :
            /\ logs[m][i].type = "update.full"
            /\ \A j \in 1..(i - 1) : logs[m][j].type # "update.full"
    ELSE 0

\* the live events connection m was sent after its first snapshot
LiveEvents(m) ==
    LET IsLive(ev) == ev.type # "update.full"
    IN  SelectSeq(SubSeq(logs[m], FirstFull(m) + 1, Len(logs[m])), IsLive)

\* the events broadcast for conversation c by the send_update calls after the
\* first n
RECURSIVE EmittedSince(_, _)
EmittedSince(c, n) ==
    IF n >= Len(emitted) THEN <<>>
    ELSE IF emitted[n + 1].conv = c
         THEN <<emitted[n + 1].ev>> \o EmittedSince(c, n + 1)
         ELSE EmittedSince(c, n + 1)

\* C8: a registered monitor has been sent, after its snapshot, every event
\* broadcast for its conversation since the snapshot was computed.
C8_NothingMissedAfterSnapshot ==
    \A m \in Mons :
        ws[m].pc = "attached" =>
            LiveEvents(m) = EmittedSince(ws[m].conv, ws[m].snap)

\* the number of items in the exchanges of c before exchange e
RECURSIVE ItemsBefore(_, _)
ItemsBefore(c, e) ==
    IF e <= 1 THEN 0 ELSE ItemsBefore(c, e - 1) + Len(exchanges[c][e - 1])

\* C9: a step that sends a snapshot sends one update.full event, and the event's
\* items list holds the wire form of every item of the conversation, whatever
\* its class, exchange after exchange and inside an exchange in item order.
C9_SnapshotHasEveryItem ==
    [][\A m \in Mons :
        (/\ Len(logs'[m]) > Len(logs[m])
         /\ logs'[m][Len(logs'[m])].type = "update.full") =>
            LET full == logs'[m][Len(logs'[m])]
                c == full.conversation_id
                n == Len(exchanges[c])
            IN  /\ Len(logs'[m]) = Len(logs[m]) + 1
                /\ c = ws[m].conv
                /\ Len(full.items) = ItemsBefore(c, n + 1)
                /\ \A e \in 1..n : \A i \in 1..Len(exchanges[c][e]) :
                      full.items[ItemsBefore(c, e) + i] = ToDict(items[exchanges[c][e][i]])
      ]_vars

C9_Witness ==
    \E m \in Mons : \E i \in 1..Len(logs[m]) :
        /\ logs[m][i].type = "update.full"
        /\ Len(logs[m][i].items) >= 4
        /\ {logs[m][i].items[j].type : j \in 1..Len(logs[m][i].items)}
              = {"message", "reasoning", "function_call"}

\* C10: every step leaves each conversation's exchange list a prefix of the new
\* one, and each exchange's item list a prefix of the new one.
C10_AppendOnly ==
    [][\A c \in ConvIds :
        /\ Len(exchanges[c]) <= Len(exchanges'[c])
        /\ \A e \in 1..Len(exchanges[c]) : IsPrefix(exchanges[c][e], exchanges'[c][e])
      ]_vars

C10_Witness ==
    \E c \in ConvIds :
        /\ Len(exchanges[c]) >= 2
        /\ Len(exchanges[c][1]) >= 2

\* exchange e, item i of conversation c is a UserMessage
IsUserAt(c, e, i) == items[exchanges[c][e][i]].cls = "UserMessage"

\* C11: the model a started chat turn resolved is that of the UserMessage in the
\* newest exchange that holds one, and in that exchange the last one; it is no
\* model exactly when no exchange of the conversation holds a UserMessage.
C11_ModelOfNewestUserMessage ==
    \A t \in 1..Len(ttab) :
        (ttab[t].kind = "chat" /\ ttab[t].pc # "new") =>
            LET c == ttab[t].conv
                held == {e \in 1..Len(exchanges[c]) :
                            \E i \in 1..Len(exchanges[c][e]) : IsUserAt(c, e, i)}
            IN  IF held = {} THEN ttab[t].model = NoModel
                ELSE \E e \in held : \E i \in 1..Len(exchanges[c][e]) :
                        /\ IsUserAt(c, e, i)
                        /\ \A d \in held : d <= e
                        /\ \A j \in (i + 1)..Len(exchanges[c][e]) : ~IsUserAt(c, e, j)
                        /\ ttab[t].model = items[exchanges[c][e][i]].model
                        /\ ttab[t].model # NoModel

\* a chat turn resolved the model of an older exchange's user message, which
\* differs from the first one's, past a newest exchange that holds none
C11_Witness ==
    \E t \in 1..Len(ttab) :
        /\ ttab[t].kind = "chat" /\ ttab[t].pc # "new"
        /\ Len(exchanges[1]) = 2
        /\ Len(exchanges[1][1]) >= 1
        /\ IsUserAt(1, 1, 1)
        /\ \A i \in 1..Len(exchanges[1][2]) : ~IsUserAt(1, 2, i)
        /\ ttab[t].model = "llama"

\* the chat turns inside chat_request of the provider
Inside == {t \in 1..Len(ttab) : ttab[t].kind = "chat" /\ ttab[t].pc = "stream"}

\* C12: at most 2 chat turns are inside the provider's chat_request at any moment.
C12_AtMostTwoInside == Cardinality(Inside) <= 2

\* two chat turns are inside chat_request and a third one waits for a permit
C12_Witness ==
    /\ Cardinality(Inside) = 2
    /\ \E t \in 1..Len(ttab) : ttab[t].kind = "chat" /\ ttab[t].pc = "new"

\* the item.updated events of item k in the order monitor m received them
UpdatesOf(m, k) ==
    SelectSeq(logs[m], LAMBDA ev : ev.type = "item.updated" /\ ev.item.key = k)

\* C13: the monitor attached throughout sees, of a function call that started
\* executing, only updates with status executing (the start, then the tool's
\* progress) until one with status finished, none after that one, and a
\* tasks.updated event after the finished one.
C13_ToolEventsInOrder ==
    /\ \A k \in 1..Len(items) :
            items[k].cls = "FunctionCall" =>
                LET L == UpdatesOf("m1", k)
                IN  \A i, j \in 1..Len(L) :
                        i < j =>
                            /\ L[i].item.status # "finished"
                            /\ L[i].item.status = "executing" =>
                                    L[j].item.status \in {"executing", "finished"}
    /\ \A p \in 1..Len(logs["m1"]) :
            LET ev == logs["m1"][p]
            IN  (ev.type = "item.updated" /\ ev.item.type = "function_call"
                    /\ ev.item.status = "finished") =>
                    \E q \in (p + 1)..Len(logs["m1"]) :
                        logs["m1"][q].type = "tasks.updated"

\* C14: the step in which a tool-call task ends leaves its FunctionCall
\* finished, appends exactly one Exchange to the conversation and schedules
\* exactly one task, a chat turn on that Exchange.
C14_ToolCallAlwaysFollowedUp ==
    [][\A t \in 1..Len(ttab) :
        (ttab[t].kind = "tool" /\ ttab[t].pc \in {"new", "running"}
            /\ ttab'[t].pc \in {"done", "failed"}) =>
            LET c == ttab[t].conv
            IN  /\ items'[ttab[t].target].status = "finished"
                /\ Len(exchanges'[c]) = Len(exchanges[c]) + 1
                /\ Len(ttab') = Len(ttab) + 1
                /\ ttab'[Len(ttab')].kind = "chat"
                /\ ttab'[Len(ttab')].conv = c
                /\ ttab'[Len(ttab')].target = Len(exchanges'[c])]_vars

\* monitor m1 sent its one user message into conversation 1, the chat turn it
\* started has ended and been reaped, and the turn produced no function call
OneTurnOver ==
    /\ ws["m1"].sent = 1
    /\ Len(ttab) = 1
    /\ ttab[1].pc \in {"done", "failed"}
    /\ tasks[1] = <<>>
    /\ notify[1] = 0
    /\ \A k \in 1..Len(items) : items[k].cls # "FunctionCall"

\* C15: after one user message on a fresh conversation the monitor has, behind
\* chat.mounted and the snapshot: item.appended of the UserMessage, tasks.updated
\* with count 1, then only item.appended, item.delta and item.updated events,
\* and last tasks.updated with count 0.
C15_TurnEventsInOrder ==
    OneTurnOver =>
        LET L == logs["m1"]
        IN  /\ Len(L) >= 5
            /\ L[1].type = "chat.mounted"
            /\ L[2].type = "update.full"
            /\ L[3] = [type |-> "item.appended", item |-> ToDict(UserMessage(1, <<"hello">>, "gpt"))]
            /\ L[4] = [type |-> "tasks.updated", count |-> 1]
            /\ \A i \in 5..(Len(L) - 1) :
                    L[i].type \in {"item.appended", "item.delta", "item.updated"}
            /\ L[Len(L)] = [type |-> "tasks.updated", count |-> 0]

\* the turn is over and the monitor was sent an assistant message's
\* item.appended, an item.delta and its item.updated with status completed
C15_Witness ==
    /\ OneTurnOver
    /\ \E i, j, n \in 5..(Len(logs["m1"]) - 1) :
        /\ i < j /\ j < n
        /\ logs["m1"][i].type = "item.appended"
        /\ logs["m1"][i].item.type = "message"
        /\ logs["m1"][j].type = "item.delta"
        /\ logs["m1"][n].type = "item.updated"
        /\ logs["m1"][n].item.status = "completed"

\* task t returned or raised
Ended(t) == t \in 1..Len(ttab) /\ ttab[t].pc \in {"done", "failed"}

\* the last tasks.updated event broadcast in conversation c carries count n
LastCountIs(c, n) ==
    LET idx == {i \in 1..Len(emitted) :
                    emitted[i].conv = c /\ emitted[i].ev.type = "tasks.updated"}
    IN  /\ idx # {}
        /\ emitted[CHOOSE i \in idx : \A j \in idx : j <= i].ev.count = n

\* task t is out of the list of its conversation and the last tasks.updated
\* event carries the length of that list
Reported(t) ==
    /\ t \in 1..Len(ttab)
    /\ t \notin Range(tasks[ttab[t].conv])
    /\ LastCountIs(ttab[t].conv, Len(tasks[ttab[t].conv]))

\* C16: a scheduled task that has not ended is in the task list of its
\* conversation; a task leaves the list only after it ended, and a
\* send_update_tasks is then pending; a task that ended is in the end out of
\* the list with a tasks.updated event carrying the length of the list
\* broadcast; when the list is empty and no such broadcast is pending the last
\* tasks.updated event carries count 0.
C16_TasksListedAndReported ==
    /\ [](\A t \in 1..Len(ttab) : ~Ended(t) => t \in Range(tasks[ttab[t].conv]))
    /\ [][\A t \in 1..Len(ttab) :
            (t \in Range(tasks[ttab[t].conv]) /\ t \notin Range(tasks'[ttab[t].conv])) =>
                /\ Ended(t)
                /\ notify'[ttab[t].conv] = notify[ttab[t].conv] + 1]_vars
    /\ [](\A c \in ConvIds :
            (tasks[c] = <<>> /\ notify[c] = 0 /\ \E t \in 1..Len(ttab) : ttab[t].conv = c)
                => LastCountIs(c, 0))
    /\ \A t \in TaskIds : Ended(t) ~> Reported(t)

\* a chat turn and a tool call have ended, one by raising, every task is out
\* of the list and the last tasks.updated event carries count 0
C16_Witness ==
    /\ \E t \in 1..Len(ttab) : ttab[t].pc = "failed"
    /\ \E t \in 1..Len(ttab) : ttab[t].kind = "tool" /\ Ended(t)
    /\ \A t \in 1..Len(ttab) : Ended(t) /\ Reported(t)
    /\ tasks[1] = <<>>
    /\ LastCountIs(1, 0)

\* C17: a connection request, with or without a conversation_id and whether or
\* not the id is registered, ends mounted on a registered conversation with
\* chat.mounted naming it as the last message sent to the client.
C17_UnknownIdIsMounted ==
    [][\A m \in Mons :
        (ws[m].pc = "idle" /\ ws'[m].pc # "idle") =>
            /\ ws'[m].pc = "mounted"
            /\ ws'[m].conv \in Conversations'
            /\ logs'[m] = Append(logs[m], [type |-> "chat.mounted",
                                           conversation_id |-> ws'[m].conv])]_vars

\* C18: a chat turn that is or was inside a provider's chat_request with a
\* model resolved for its conversation resolved one of the models the provider
\* lists.
C18_ProviderListsModel ==
    \A t \in 1..Len(ttab) :
        (ttab[t].kind = "chat" /\ ttab[t].pc # "new" /\ ttab[t].model # NoModel) =>
            ttab[t].model \in Models

\* C19: a step in which a chat turn meets a response status other than 200, a
\* content type other than the streaming one, a malformed line or a data line
\* that is no JSON does not fail the chat-turn task and changes neither an item
\* nor an exchange.
C19_RefusalsReturnNormally ==
    [][\A t \in TaskIds :
        (\/ \E sse \in BOOLEAN : ChatStart(t, FALSE, sse)
         \/ ChatStart(t, TRUE, FALSE)
         \/ \E kind \in BadLines : BadLine(t, kind)) =>
            /\ ttab'[t].pc # "failed"
            /\ items' = items
            /\ exchanges' = exchanges]_vars

\* the exchange chat turn t works on holds no item of class cls
NoneOfClass(t, cls) ==
    \A i \in 1..Len(exchanges[ttab[t].conv][ttab[t].target]) :
        items[exchanges[ttab[t].conv][ttab[t].target][i]].cls # cls

\* C20: a step that decodes a text delta while the exchange holds no
\* AssistentMessage, or a reasoning delta while it holds no AssistentReasoning,
\* changes no item, broadcasts nothing and leaves the chat turn reading its
\* stream.
C20_StrayDeltaIsNoOp ==
    [][\A t \in TaskIds :
        (\/ /\ \/ RespEvent(t, [type |-> "response.output_text.delta"])
                \/ MsgEvent(t, [type |-> "content_block_delta", delta |-> "text_delta"])
             /\ NoneOfClass(t, "AssistentMessage")
         \/ /\ \/ RespEvent(t, [type |-> "response.reasoning_text.delta"])
                \/ MsgEvent(t, [type |-> "content_block_delta", delta |-> "thinking_delta"])
             /\ NoneOfClass(t, "AssistentReasoning")) =>
            /\ items' = items
            /\ emitted' = emitted
            /\ ttab'[t].pc = "stream"]_vars

\* the items of the exchange chat turn t fills, the UserMessage left out: the
\* items its chat_request appended
AppendedBy(t) ==
    {k \in Range(exchanges'[ttab[t].conv][ttab[t].target]) :
        items'[k].cls # "UserMessage"}

\* C21: when the stream of a chat turn ends and chat_request returns, none of
\* the items the call appended is in_progress and every FunctionCall among
\* them has a tool-call task.
C21_NothingLeftInProgress ==
    [][\A t \in TaskIds :
        (\E done \in BOOLEAN : StreamEnd(t, done)) =>
            \A k \in AppendedBy(t) :
                /\ items'[k].status # "in_progress"
                /\ items'[k].cls = "FunctionCall" =>
                        \E u \in 1..Len(ttab') :
                            ttab'[u].kind = "tool" /\ ttab'[u].target = k]_vars

\* the arguments of the ping call tool task t is about are no JSON, name no
\* target, an empty one or one that is empty once sanitized
BadArguments(t) ==
    LET it == items[ttab[t].target]
        a == JsonLoads(it.arguments)
    IN  /\ it.name = "ping"
        /\ \/ a.json \in {"invalid", "notarget"}
           \/ a.json = "object" /\ Sanitize(a.target) = <<>>

\* C22: the step in which a ping call with such arguments starts ends the call:
\* no subprocess is started, the item's error flag is true and its content is
\* a message, not empty.
C22_BadArgumentsExplained ==
    [][\A t \in TaskIds :
        (IsRunnable(t, "tool", "new") /\ BadArguments(t) /\ ttab'[t].pc # "new") =>
            /\ ttab'[t].pc # "running"
            /\ ttab'[t].cmd = <<>>
            /\ items'[ttab[t].target].error
            /\ items'[ttab[t].target].content # <<>>]_vars

\* the characters the ping command may be given
Allowed == Alnum \cup {".", "-", ":"}

\* C23: the fourth word of the command line of a started ping is made of the
\* target's allowed characters, all of them and in their order, with no other
\* character; for "8.8.8.8; rm -rf /" it is "8.8.8.8rm-rf".
C23_OnlyAllowedCharacters ==
    \A t \in 1..Len(ttab) :
        (ttab[t].kind = "tool" /\ ttab[t].cmd # <<>>) =>
            LET target == JsonLoads(items[ttab[t].target].arguments).target
                v == ttab[t].cmd[4]
                P == {i \in 1..Len(target) : target[i] \in Allowed}
            IN  /\ Len(ttab[t].cmd) = 4
                /\ \A j \in 1..Len(v) : v[j] \in Allowed
                /\ Len(v) = Cardinality(P)
                /\ \A i \in P : v[Cardinality({p \in P : p <= i})] = target[i]
                /\ target = InjectionTarget =>
                        v = <<"8", ".", "8", ".", "8", ".", "8", "r", "m", "-", "r", "f">>

\* a ping was started for the target "8.8.8.8; rm -rf /"
C23_Witness ==
    \E t \in 1..Len(ttab) :
        /\ ttab[t].kind = "tool"
        /\ ttab[t].cmd # <<>>
        /\ JsonLoads(items[ttab[t].target].arguments).target = InjectionTarget
        /\ Len(ttab[t].cmd[4]) = 12

\* the events broadcast in this step
NewlyEmitted == SubSeq(emitted', Len(emitted) + 1, Len(emitted'))

\* this step is tool task t meeting a tool failure: an unknown function name,
\* arguments that are a JSON value but no object, a subprocess that cannot
\* be created, or a non-zero exit status
ToolFails(t) ==
    \/ /\ IsRunnable(t, "tool", "new")
       /\ ttab'[t].pc # "new"
       /\ \/ items[ttab[t].target].name # "ping"
          \/ JsonLoads(items[ttab[t].target].arguments).json = "nonobject"
    \/ ToolStart(t, "enoent")
    \/ ToolStart(t, "error")
    \/ ToolExit(t, 1)

\* C24: in a step in which a tool call meets a tool failure, every finished
\* update that is broadcast carries error = true; and when no monitor's send
\* fails the step broadcasts the finished update, leaves the item finished
\* with error = true, with the failure note in its content after a non-zero
\* exit, and the tool-call task ended without failing.
C24_ToolFailureSetsError ==
    [][\A t \in TaskIds :
        ToolFails(t) =>
            LET k == ttab[t].target
                fin == {i \in 1..Len(NewlyEmitted) :
                            /\ NewlyEmitted[i].ev.type = "item.updated"
                            /\ NewlyEmitted[i].ev.item.key = k
                            /\ NewlyEmitted[i].ev.item.status = "finished"}
            IN  /\ \A i \in fin : NewlyEmitted[i].ev.item.error
                /\ (\A m \in monitors[ttab[t].conv] : ~ws[m].broken) =>
                        /\ fin # {}
                        /\ ttab'[t].pc = "done"
                        /\ items'[k].status = "finished"
                        /\ items'[k].error
                        /\ ToolExit(t, 1) =>
                                items'[k].content = items[k].content \o
                                    <<"Ping command failed with return code">>]_vars

\* the monitor was sent the finished update of a ping that exited with a
\* non-zero status, and the tool-call task has ended without failing
C24_Witness ==
    \E i \in 1..Len(logs["m1"]) :
        /\ logs["m1"][i].type = "item.updated"
        /\ logs["m1"][i].item.status = "finished"
        /\ logs["m1"][i].item.error
        /\ logs["m1"][i].item.content # <<>>
        /\ logs["m1"][i].item.content[Len(logs["m1"][i].item.content)] =
                "Ping command failed with return code"
        /\ ttab[2].pc = "done"

\* the events of the send_update calls that wrote to monitor m, in the order
\* of the calls
RECURSIVE WrittenTo(_, _)
WrittenTo(m, n) ==
    IF n = 0 THEN <<>>
    ELSE IF m \in emitted[n].got
         THEN Append(WrittenTo(m, n - 1), emitted[n].ev)
         ELSE WrittenTo(m, n - 1)

\* what connection m was sent by broadcasts: everything but the replies the
\* connection handler writes itself (chat.mounted and the snapshots)
BroadcastsSentTo(m) ==
    LET IsBroadcast(ev) == ev.type \notin {"chat.mounted", "update.full"}
    IN  SelectSeq(logs[m], IsBroadcast)

WireFields(it) ==
    CASE it.cls = "UserMessage" -> {"key", "type", "role", "content", "model"}
      [] it.cls = "AssistentMessage" -> {"key", "type", "status", "role", "content"}
      [] it.cls = "AssistentReasoning" -> {"key", "type", "status", "content"}
      [] it.cls = "FunctionCall" ->
            {"key", "type", "status", "call_id", "name", "arguments", "content", "error"}

\* C26: the wire form of every item holds each of the item's fields with the
\* item's value, and two different items have different wire forms.
C26_WireFormKeepsEveryField ==
    /\ \A k \in 1..Len(items) :
          \A f \in WireFields(items[k]) :
              /\ f \in DOMAIN ToDict(items[k])
              /\ ToDict(items[k])[f] = items[k][f]
    /\ \A k, j \in 1..Len(items) :
          k # j => ToDict(items[k]) # ToDict(items[j])

\* C27: a client message of another type changes nothing of the conversation
\* (exchanges, items, tasks, monitors), sends and broadcasts no event, and
\* leaves the connection in its message loop.
C27_UnknownMessageChangesNothing ==
    [][\A m \in Mons : \A ty \in OtherTypes :
          WsUnknownMessage(m, ty) =>
              /\ UNCHANGED <<Conversations, exchanges, items, tasks, ttab, monitors,
                             notify, logs, emitted, statusLog>>
              /\ ws'[m].pc = "attached"
              /\ ~ws'[m].broken
              /\ m \in monitors'[ws[m].conv]]_vars

\* the handler logged a warning for a message of another type while a chat
\* turn of the conversation was streaming, and is still in its message loop
C27_Witness ==
    /\ ws["m1"].warned >= 1
    /\ ws["m1"].pc = "attached"
    /\ "m1" \in monitors[ws["m1"].conv]
    /\ \E t \in 1..Len(ttab) : ttab[t].kind = "chat" /\ ttab[t].pc = "stream"
    /\ Len(items) >= 2

\* C28: every connection that was given a conversation was given one of the
\* registry, and only registered conversations have exchanges;
\* create_conversation returns a conversation whose identifier was not in the
\* registry and that has no exchange; a step never takes a conversation out
\* of the registry, and leaves it the exchanges and items it had.
C28_RegistryOnlyGrows ==
    /\ [](/\ \A m \in Mons :
                ws[m].pc \notin {"idle", "failed"} => ws[m].conv \in Conversations
          /\ \A c \in ConvIds : exchanges[c] # <<>> => c \in Conversations)
    /\ [][/\ \A m \in Mons :
                WsConnect(m, None) =>
                    /\ ws'[m].conv \notin Conversations
                    /\ ws'[m].conv \in Conversations'
                    /\ exchanges'[ws'[m].conv] = <<>>
          /\ Conversations \subseteq Conversations'
          /\ \A c \in Conversations :
                /\ Len(exchanges'[c]) >= Len(exchanges[c])
                /\ \A e \in 1..Len(exchanges[c]) :
                      IsPrefix(exchanges[c][e], exchanges'[c][e])]_vars

\* a second conversation was created while the first, which has an exchange,
\* is in the registry
C28_Witness ==
    /\ Conversations = {1, 2}
    /\ exchanges[1] # <<>>
    /\ exchanges[2] = <<>>
    /\ ws["m2"].pc = "mounted"
    /\ ws["m2"].conv = 2

\* k is the last item of its class that is in_progress in exchange e of
\* conversation c
LastInProgress(c, e, k) ==
    LET ks == exchanges[c][e]
    IN  \E i \in 1..Len(ks) :
            /\ ks[i] = k
            /\ items[k].status = "in_progress"
            /\ \A j \in (i + 1)..Len(ks) :
                  ~(items[ks[j]].cls = items[k].cls /\ items[ks[j]].status = "in_progress")

\* C29: while the stream of a chat turn is decoded, a step changes the content
\* of an item only if the item is no UserMessage and is the last item of its
\* class still in_progress in the exchange the chat turn fills.
C29_DeltaOnlyIntoOpenItem ==
    [][\A t \in TaskIds :
        (t <= Len(ttab) /\ ttab[t].kind = "chat" /\ ttab[t].pc = "stream"
            /\ ttab'[t].pc = "stream") =>
            \A k \in 1..Len(items) :
                items'[k].content # items[k].content =>
                    /\ items[k].cls # "UserMessage"
                    /\ LastInProgress(ttab[t].conv, ttab[t].target, k)]_vars

\* C30: in the events broadcast for a conversation, an item.delta or
\* item.updated event for a key comes after an item.appended event for that
\* key, and the item is in an exchange of the conversation.
C30_AppendedBeforeDeltaOrUpdated ==
    \A i \in 1..Len(emitted) :
        emitted[i].ev.type \in {"item.delta", "item.updated"} =>
            /\ \E j \in 1..(i - 1) :
                  /\ emitted[j].conv = emitted[i].conv
                  /\ emitted[j].ev.type = "item.appended"
                  /\ emitted[j].ev.item.key = EventKey(emitted[i].ev)
            /\ \E e \in 1..Len(exchanges[emitted[i].conv]) :
                  EventKey(emitted[i].ev) \in Range(exchanges[emitted[i].conv][e])

\* conversation c holds a UserMessage
HasUserMessage(c) ==
    \E k \in Range(Flatten(exchanges[c])) : items[k].cls = "UserMessage"

IsMessageEntry(e, it) ==
    /\ DOMAIN e = {"role", "content"}
    /\ e.role = it.role
    /\ e.content = it.content

\* entry e is a call entry that carries the call identifier, the name and
\* the arguments of FunctionCall it, in the shape of adapter a
IsCallEntry(a, e, it) ==
    CASE a = "response" ->
            /\ DOMAIN e = {"type", "call_id", "name", "arguments"}
            /\ e.type = "function_call"
            /\ e.call_id = it.call_id /\ e.name = it.name /\ e.arguments = it.arguments
      [] a = "chatcompletition" ->
            /\ "tool_calls" \in DOMAIN e
            /\ Len(e.tool_calls) = 1
            /\ e.tool_calls[1].id = it.call_id
            /\ e.tool_calls[1].function.name = it.name
            /\ e.tool_calls[1].function.arguments = it.arguments
      [] a = "messages" ->
            /\ DOMAIN e = {"role", "content"}
            /\ e.role = "assistant"
            /\ Len(e.content) = 1
            /\ e.content[1].type = "tool_use"
            /\ e.content[1].id = it.call_id
            /\ e.content[1].name = it.name
            /\ "input" \in DOMAIN e.content[1]
            /\ e.content[1].input = it.arguments

\* entry e is a result entry that carries the call identifier and the content
\* of FunctionCall it, in the shape of adapter a
IsResultEntry(a, e, it) ==
    CASE a = "response" ->
            /\ DOMAIN e = {"type", "call_id", "output"}
            /\ e.type = "function_call_output"
            /\ e.call_id = it.call_id /\ e.output = it.content
      [] a = "chatcompletition" ->
            /\ DOMAIN e = {"role", "tool_call_id", "content"}
            /\ e.role = "tool"
            /\ e.tool_call_id = it.call_id /\ e.content = it.content
      [] a = "messages" ->
            /\ DOMAIN e = {"role", "content"}
            /\ e.role = "user"
            /\ Len(e.content) = 1
            /\ e.content[1].type = "tool_result"
            /\ e.content[1].tool_use_id = it.call_id
            /\ e.content[1].content = it.content

\* history h lists the items ks in order: nothing for a reasoning item, one
\* entry for a message, a call entry and then a result entry for a FunctionCall
RECURSIVE HistoryLists(_, _, _)
HistoryLists(a, ks, h) ==
    IF ks = <<>> THEN h = <<>>
    ELSE LET it == items[Head(ks)]
         IN  CASE it.cls = "AssistentReasoning" -> HistoryLists(a, Tail(ks), h)
               [] it.cls \in {"UserMessage", "AssistentMessage"} ->
                    /\ Len(h) >= 1
                    /\ IsMessageEntry(h[1], it)
                    /\ HistoryLists(a, Tail(ks), Tail(h))
               [] it.cls = "FunctionCall" ->
                    /\ Len(h) >= 2
                    /\ IsCallEntry(a, h[1], it)
                    /\ IsResultEntry(a, h[2], it)
                    /\ HistoryLists(a, Tail(ks), Tail(Tail(h)))

\* the history without the system message of the instructions
ItemEntries(h) ==
    IF h # <<>> /\ h[1].role = "system" THEN Tail(h) ELSE h

\* C32: the history a chat turn serializes when it starts lists the items of
\* its conversation in exchange and item order: nothing for a reasoning item,
\* one entry per user or assistant message, and per FunctionCall a call entry
\* with its call identifier, name and arguments followed at once by a result
\* entry with the same call identifier and the item's content.
C32_HistoryListsItems ==
    [][\A t \in TaskIds : \A http_ok \in BOOLEAN :
          ChatStart(t, http_ok, TRUE) =>
              HistoryLists(adapter, Flatten(exchanges[ttab[t].conv]),
                           ItemEntries(Serialize(adapter, Cur, ttab[t].conv)))]_vars

\* C33: while a FunctionCall is executing, a step changes its content only by
\* appending to it, and a step that appended a chunk the tool read or wrote
\* broadcast, before the finished update, an item.updated event of the
\* executing item whose content ends with that chunk.
C33_ChunkThenProgress ==
    [][\A k \in 1..Len(items) :
          (items[k].cls = "FunctionCall" /\ items[k].status = "executing") =>
              /\ IsPrefix(items[k].content, items'[k].content)
              /\ items'[k].content # items[k].content =>
                    \E i \in (Len(emitted) + 1)..Len(emitted') :
                        /\ emitted'[i].ev.type = "item.updated"
                        /\ emitted'[i].ev.item.key = k
                        /\ emitted'[i].ev.item.status = "executing"
                        /\ emitted'[i].ev.item.content = items'[k].content]_vars

\* C34: a monitor is registered only for a connection that is in its message
\* loop, and for the conversation of that connection; the step that ends the
\* loop changes nothing of the registry, the exchanges, the items and the
\* tasks; and a broadcast goes to the registered monitors only and fails only
\* for a connection still in its loop whose transport failed, never because
\* monitors left or because none is registered.
C34_MonitorOnlyWhileLoopRuns ==
    /\ [](\A c \in ConvIds : \A m \in monitors[c] :
              ws[m].pc = "attached" /\ ws[m].conv = c)
    /\ [][/\ \A m \in Mons :
                (ws[m].pc = "attached" /\ ws'[m].pc = "closed") =>
                    /\ m \notin monitors'[ws[m].conv]
                    /\ WsClose(m) =>
                          UNCHANGED <<Conversations, exchanges, items, tasks, ttab,
                                      notify, permits, cur, emitted>>
          /\ \A i \in (Len(emitted) + 1)..Len(emitted') :
                /\ emitted'[i].mons \subseteq monitors[emitted'[i].conv]
                /\ \A m \in emitted'[i].failed : ws[m].pc = "attached" /\ ws[m].broken
                /\ emitted'[i].mons = {} => emitted'[i].failed = {}]_vars

\* the message loop of the only client ended while a chat turn was streaming:
\* the monitor set is empty, an event was broadcast to nobody after that and
\* the chat turn has returned
C34_Witness ==
    /\ ws["m1"].pc = "closed"
    /\ monitors[1] = {}
    /\ \E i \in 1..Len(emitted) :
          emitted[i].mons = {} /\ emitted[i].ev.type = "item.appended"
    /\ \E t \in 1..Len(ttab) : ttab[t].kind = "chat" /\ ttab[t].pc = "done"

\* the blocks of the lines ls: the runs of lines between empty lines, the
\* empty runs left out; acc is the run being read, and a run that no empty
\* line ends counts when last is TRUE
RECURSIVE BlocksOf(_, _, _)
BlocksOf(ls, acc, last) ==
    IF ls = <<>> THEN (IF last /\ acc # <<>> THEN <<acc>> ELSE <<>>)
    ELSE IF Head(ls).name = "blank"
         THEN (IF acc # <<>> THEN <<acc>> ELSE <<>>) \o BlocksOf(Tail(ls), <<>>, last)
         ELSE BlocksOf(Tail(ls), Append(acc, Head(ls)), last)

\* the run of lines after the last empty line
RECURSIVE OpenBlock(_, _)
OpenBlock(ls, acc) ==
    IF ls = <<>> THEN acc
    ELSE IF Head(ls).name = "blank" THEN OpenBlock(Tail(ls), <<>>)
         ELSE OpenBlock(Tail(ls), Append(acc, Head(ls)))

\* C35: the blocks handed to the event handler are, in order and once each,
\* the blocks the empty lines ended (runs of empty lines hand over nothing);
\* while the stream is read the lines after the last empty line are held
\* back, and when the stream has ended the block they form was handed over
\* as the last one.
C35_BlocksDispatchedOnce ==
    \A t \in 1..Len(ttab) :
        (adapter = "response" /\ ttab[t].kind = "chat" /\ reader.task = t) =>
            /\ ttab[t].pc = "stream" =>
                  /\ reader.blocks = BlocksOf(reader.lines, <<>>, FALSE)
                  /\ reader.event = OpenBlock(reader.lines, <<>>)
            /\ ttab[t].pc = "done" =>
                  reader.blocks = BlocksOf(reader.lines, <<>>, TRUE)

\* the stream held a block of an event: and a data: line that added a
\* message, two empty lines and a block that no empty line ended: two blocks
\* were handed over, the second at the end of the stream
C35_Witness ==
    /\ Len(reader.lines) = 5
    /\ reader.lines[1].name = "event"
    /\ reader.lines[2].name = "data"
    /\ reader.lines[3].name = "blank"
    /\ reader.lines[4].name = "blank"
    /\ reader.lines[5].name # "blank"
    /\ Len(reader.blocks) = 2
    /\ Len(items) = 2
    /\ \E t \in 1..Len(ttab) :
            ttab[t].kind = "chat" /\ ttab[t].pc = "done" /\ reader.task = t

\* the tool-call tasks create_function_call scheduled for item k
DispatchesOf(k) ==
    {t \in 1..Len(ttab) : ttab[t].kind = "tool" /\ ttab[t].target = k}

\* C36: for every FunctionCall item at most one tool-call task was scheduled,
\* and exactly one when the item has left in_progress.
C36_DispatchedOnce ==
    \A k \in 1..Len(items) :
        items[k].cls = "FunctionCall" =>
            /\ Cardinality(DispatchesOf(k)) <= 1
            /\ items[k].status # "in_progress" => Cardinality(DispatchesOf(k)) = 1

\* C37: when a chat turn starts and serializes the history of its
\* conversation, every FunctionCall of the conversation is finished.
C37_HistoryHoldsFinishedCalls ==
    [][\A t \in TaskIds : \A http_ok \in BOOLEAN :
          ChatStart(t, http_ok, TRUE) =>
              \A k \in Range(Flatten(exchanges[ttab[t].conv])) :
                  items[k].cls = "FunctionCall" => items[k].status = "finished"]_vars

\* C38: the permits taken from the provider's semaphore are as many as the
\* chat turns inside chat_request, whatever way the turns left it, and a
\* chat turn that waits for a permit gets one when the running streams end.
C38_PermitsMatchTurnsInside ==
    /\ [](SemaphoreValue - permits = Cardinality(Inside))
    /\ \A t \in TaskIds :
          (t \in 1..Len(ttab) /\ ttab[t].kind = "chat" /\ ttab[t].pc = "new")
              ~> (ttab[t].pc # "new")

\* one chat turn left by an exception and one returned, and the turn that
\* had to wait is inside chat_request with the only permit taken
C38_Witness ==
    /\ \E t \in 1..Len(ttab) : ttab[t].kind = "chat" /\ ttab[t].pc = "failed"
    /\ \E t \in 1..Len(ttab) : ttab[t].kind = "chat" /\ ttab[t].pc = "done"
    /\ Cardinality(Inside) = 1
    /\ permits = SemaphoreValue - 1
    /\ nev >= 1


\* the content of a tool call's item after n lines were read and, once the
\* loop has ended, the note of a failed ping
LinesRead(n, note) ==
    [i \in 1..n |-> "line"] \o
        (IF note THEN <<"Ping command failed with return code">> ELSE <<>>)

\* C39: the read loop of tool_ping runs exactly as long as one of its three
\* tasks (the readline of stdout, the readline of stderr, process.wait()) is
\* pending, whatever the order of the three completions; every non-empty
\* line read from either pipe is in the content exactly once; and the exit
\* status of the failure check is the one the process reported
C39_ReadLoopEndsWhenAllCompleted ==
    /\ [](\A t \in 1..Len(ttab) :
            (ttab[t].kind = "tool" /\ ttab[t].cmd # <<>>) =>
                LET it == items[ttab[t].target]
                IN  /\ ttab[t].pc = "running" <=> ttab[t].pending # {}
                    /\ ttab[t].pc = "running" =>
                            /\ it.content = LinesRead(nlines, FALSE)
                            /\ it.error = FALSE
                    /\ ttab[t].pc # "running" =>
                            /\ it.content = LinesRead(nlines, ttab[t].return_code # 0)
                            /\ it.error = (ttab[t].return_code # 0)
                            /\ it.status = "finished")
    /\ [][\A t \in 1..Len(ttab) : \A return_code \in ReturnCodes :
            ToolWait(t, return_code) => ttab'[t].return_code = return_code]_vars

\* the process failed, two lines were read and all three tasks completed
C39_Witness ==
    \E t \in 1..Len(ttab) :
        /\ ttab[t].kind = "tool"
        /\ ttab[t].cmd # <<>>
        /\ ttab[t].pc = "done"
        /\ ttab[t].pending = {}
        /\ ttab[t].return_code = 1
        /\ nlines = 2
        /\ items[ttab[t].target].content = LinesRead(2, TRUE)

=============================================================================
